---- MODULE Spec2Model ----
(***************************************************************************)
(* go-m2rest: the HTTP request / retry / error-normalisation layer         *)
(* (api_client.go, internal.go) and the entity accessors built on it.      *)
(*                                                                         *)
(* One caller operation runs at a time.  Each HTTP call an operation makes *)
(* goes through resty's Request.Execute, which runs the Backoff loop that  *)
(* buildBasicHTTPClient configures (resty v2.16.5, pinned in go.mod):      *)
(*   for attempt := 0; attempt <= RetryCount; attempt++ {                  *)
(*       resp, err = operation()                                           *)
(*       if ctx.Err() != nil { return err }                                *)
(*       needsRetry = retryCondition(resp, err)                            *)
(*       if !needsRetry { return err }                                     *)
(*       if attempt == RetryCount { return err }                           *)
(*       select { <-time.After(wait) ; <-ctx.Done(): return ctx.Err() } }  *)
(* The steps of a call are split where the caller's context can be         *)
(* cancelled concurrently and where the remote server acts.                *)
(***************************************************************************)
EXTENDS Integers, Sequences, FiniteSets, TLC

\* ------------------------------------------------------------------ bounds
MaxLen == 4
MinStatus == 100
MaxStatus == 600

\* --------------------------------------------------------------- constants
RetryAttempts == 3
StatusBadRequest == 400
StatusNotFound == 404
StatusInternalServerError == 500
StatusServiceUnavailable == 503

Quote == "\""
Chars == {Quote, "a", "7"}

\* response bodies the remote can send (raw bytes as character sequences)
Bodies == { <<Quote, "7", Quote>>, <<"7">> }

\* statuses the remote answers with during a call
Statuses == {200, 400, 404, 500, 502, 503}

\* ------------------------------------------------------------------ errors
\* A Go error value: the innermost error (base), the fmt.Errorf("...%w")
\* layers around it (outermost first) and the response details wrapError
\* puts into the message.
NoErr == [base |-> "nil", layers |-> <<>>, status |-> 0, body |-> <<>>]

Sentinel(name) == [base |-> name, layers |-> <<>>, status |-> 0, body |-> <<>>]

ErrNotFound == Sentinel("not found")

ErrBadRequest == Sentinel("bad request")

ErrNoPointer == Sentinel("no pointer")

\* fmt.Errorf("<msg>: %v", err): a new error that wraps nothing
Wrap_Opaque(err, msg) ==
    [err EXCEPT !.base = "errorString", !.layers = <<msg>> \o @]

\* fmt.Errorf("<msg>: %w", err)
Wrap(err, msg) == [err EXCEPT !.layers = <<msg>> \o @]

\* err == sentinel (identity comparison)
IsIdentical(err, sentinel) == err = sentinel

\* errors.Is(err, sentinel)
ErrorsIs(err, sentinel) == err.base = sentinel.base

\* wrapError called without the response details
wrapError_NoDetails(err, triedTo, status, body) ==
    [base |-> err.base, layers |-> <<triedTo>> \o err.layers,
     status |-> 0, body |-> <<>>]

\* wrapError(err, triedTo, additional) with additional = {statusCode, response}
wrapError(err, triedTo, status, body) ==
    [base |-> err.base, layers |-> <<triedTo>> \o err.layers,
     status |-> status, body |-> body]

\* IsError with the boundary status 400 left out
IsError_Off(resp) == resp.status > 400

\* resty.Response.IsError(): StatusCode() > 399
IsError(resp) == resp.status > 399

\* the second test written with > instead of >=
mayReturnErrorForHTTPResponse_Above(resp, triedTo) ==
    IF IsError(resp)
    THEN IF resp.status = StatusNotFound
         THEN ErrNotFound
         ELSE IF resp.status > StatusBadRequest
              THEN wrapError(ErrBadRequest, triedTo, resp.status, resp.body)
              ELSE wrapError(Sentinel("http status error"), triedTo,
                             resp.status, resp.body)
    ELSE NoErr

mayReturnErrorForHTTPResponse(resp, triedTo) ==
    IF IsError(resp)
    THEN IF resp.status = StatusNotFound
         THEN ErrNotFound
         ELSE IF resp.status >= StatusBadRequest
              THEN wrapError(ErrBadRequest, triedTo, resp.status, resp.body)
              ELSE wrapError(Sentinel("http status error"), triedTo,
                             resp.status, resp.body)
    ELSE NoErr

\* mayTrimSurroundingQuotes trimming when either end is a quote
mayTrimSurroundingQuotes_Either(s) ==
    IF Len(s) >= 2
    THEN IF s[1] = Quote \/ s[Len(s)] = Quote
         THEN SubSeq(s, 2, Len(s) - 1)
         ELSE s
    ELSE s

mayTrimSurroundingQuotes(s) ==
    IF Len(s) >= 2
    THEN IF s[1] = Quote /\ s[Len(s)] = Quote
         THEN SubSeq(s, 2, Len(s) - 1)
         ELSE s
    ELSE s


\* -------------------------------------------------------------- operations
\* Caller operations.  The first two are the Client methods called directly
\* (with any decode target); the rest are entity accessors.
DirectOps == {"GetRouteAndDecode", "PostRouteAndDecode"}

LookupOps == {"GetProductBySKU", "GetAttributeByAttributeCode",
              "GetCategoryByName", "GetOrderByIncrementID"}

Ops == DirectOps \cup LookupOps \cup
       {"CreateOrReplaceProduct", "UpdateQuantityForStockItem",
        "UpdateOptionsFromRemote"}

\* decode targets a caller can pass as `target any`
Targets == {"ptr", "value", "nil"}

\* ctx.Err() of the caller's context
CtxErrs == {"context.Canceled", "context.DeadlineExceeded"}

\* MConfigurableProduct methods take no context: resty then runs the request
\* under context.Background(), which is never cancelled.
HasCtx(o) == o # "UpdateOptionsFromRemote"

\* first HTTP request of an operation
FirstPhase(o) ==
    CASE o \in {"GetCategoryByName", "GetOrderByIncrementID"} -> "list"
      [] o \in {"PostRouteAndDecode", "CreateOrReplaceProduct"} -> "post"
      [] o = "UpdateQuantityForStockItem" -> "put"
      [] OTHER -> "detail"

\* HTTP method of the request an operation issues in a phase
Method(o, ph) ==
    CASE ph = "post" -> "POST"
      [] ph = "put" -> "PUT"
      [] OTHER -> "GET"

\* how the request is issued: through Client.GetRouteAndDecode /
\* PostRouteAndDecode ("decode"), directly on HTTPClient with SetContext
\* ("direct"), or directly without a context ("noctx")
Via(o) ==
    CASE o = "UpdateQuantityForStockItem" -> "direct"
      [] o = "UpdateOptionsFromRemote" -> "noctx"
      [] OTHER -> "decode"

\* the tryTo description handed to mayReturnErrorForHTTPResponse
TryTo(o, ph) ==
    CASE o = "GetProductBySKU" -> "get detailed product from remote"
      [] o = "GetAttributeByAttributeCode" -> "update local attribute from remote"
      [] o = "GetCategoryByName" /\ ph = "list" -> "get category by name from remote"
      [] o = "GetCategoryByName" /\ ph = "detail" -> "get category from remote"
      [] o = "GetCategoryByName" /\ ph = "products" -> "get category products from remote"
      [] o = "GetOrderByIncrementID" /\ ph = "list" -> "get order by increment_id from remote"
      [] o = "GetOrderByIncrementID" /\ ph = "detail" -> "get detailed order object from magento2-api"
      [] o = "CreateOrReplaceProduct" -> "create new product on remote"
      [] o = "UpdateQuantityForStockItem" -> "update stock for product"
      [] o = "UpdateOptionsFromRemote" -> "get options for configurable product from remote"
      [] OTHER -> "tryTo"

\* ------------------------------------------------------------------- state
VARIABLES
    op,         \* the caller operation in progress, "none" when idle
    phase,      \* which HTTP request of the operation is being made
    target,     \* the decode target the caller passed
    pc,         \* position inside the operation
    ctxErr,     \* ctx.Err() of the caller's context, "none" while live
    ctxAtStart, \* ctx.Err() at the moment the operation was invoked
    attempt,    \* resty Request.Attempt of the current HTTP call
    wire,       \* requests of the current HTTP call handed to the network
    outcomes,   \* status of every attempt of the current call (0: no response)
    resp,       \* the resty.Response of the last attempt
    terr,       \* the error client.execute returned for the last attempt
    berr,       \* the error Request.Execute (the Backoff loop) returned
    callErr,    \* the error the HTTP call returned to the accessor
    listLen,    \* number of items the list request decoded
    ret,        \* the error the operation returned to the caller
    lateSend,   \* a request was handed to the network after its context was done
    fn,         \* pure function under evaluation ("none" in the client model)
    fdone,      \* the pure function has been applied
    tin,        \* argument of mayTrimSurroundingQuotes
    trimmed,    \* its result
    nresp,      \* argument of mayReturnErrorForHTTPResponse
    nerr,       \* its result
    w,          \* the entity wrapper the caller holds (kind "none": no wrapper)
    remote,     \* what the Magento store holds
    last,       \* the accessor call that returned last, with its results
    tool,       \* the bulk tool's function that is running ("none": not run)
    count,      \* number of products to create / of CSV rows
    concurrent, \* the -concurrent flag
    batch,      \* the products / updates slice: the SKU of each entry
    mpc,        \* position of the function's own goroutine
    idx,        \* how many entries the range loop has been through
    loopVar,    \* the range variable (product / update) of the loop
    wk,         \* the worker goroutines, by entry index
    sem,        \* number of tokens buffered in the sem channel
    errors,     \* the errors channel's buffer
    wg,         \* the WaitGroup counter
    summary,    \* what the final log line reports
    criteria,   \* the []SearchQueryCriteria handed to the query builder
    additional, \* the supplementary Fields handed to the query builder
    query       \* the query string the builder returned, as key=value pairs

callVars == <<attempt, wire, outcomes, resp, terr, berr, callErr>>

pureVars == <<fn, fdone, tin, trimmed, nresp, nerr>>

accVars == <<w, remote, last>>

queryVars == <<criteria, additional, query>>

bulkVars == <<tool, count, concurrent, batch, mpc, idx, loopVar, wk, sem,
              errors, wg, summary>>

vars == <<op, phase, target, pc, ctxErr, ctxAtStart, attempt, wire,
          outcomes, resp, terr, berr, callErr, listLen, ret, lateSend,
          fn, fdone, tin, trimmed, nresp, nerr, w, remote, last,
          tool, count, concurrent, batch, mpc, idx, loopVar, wk, sem,
          errors, wg, summary, criteria, additional, query>>

\* a Response without RawResponse: StatusCode() is 0, Body() is empty
NoResp == [status |-> 0, body |-> <<>>]

\* the *url.Error http.Client.Do returns; it wraps the cause
UrlError(cause) == [base |-> cause, layers |-> <<"url.Error">>,
                    status |-> 0, body |-> <<>>]

\* ctx.Err() itself
CtxError(c) == Sentinel(c)

\* a request built without SetContext(ctx): it never sees the cancellation
Cancelled_Never == FALSE

\* the context the current request runs under has been cancelled
Cancelled == HasCtx(op) /\ ctxErr # "none"

\* ------------------------------------------------- wrappers and the store
\* Strings are character sequences; a route constant is one token.
products == <<"/products">>

stockItemsRelative == <<"stockItems">>

Slash == <<"/">>

\* the SKUs callers use; "/" is a character the URL path reserves
Skus == { <<"a">>, <<"a", "/", "b">> }

\* an entity wrapper (MProduct, MCategory, MAttribute, MOrder, MCart):
\* Route, the entity fields the accessors read or write, and whether a
\* detail GET has been decoded into the entity
NoWrapper == [kind |-> "none", route |-> <<>>, sku |-> <<>>, id |-> 0,
              hydrated |-> FALSE, quoteID |-> <<>>, options |-> {},
              client |-> "none", items |-> <<>>]

\* the store before any accessor call
EmptyStore == [products |-> {}, options |-> {}, cart |-> {}]

\* no accessor call has returned yet
NoCall == [op |-> "none", err |-> NoErr, nonNil |-> FALSE, val |-> <<>>,
           reqs |-> <<>>, status |-> 0, served |-> TRUE, listed |-> -1,
           arg |-> <<>>, body |-> <<>>, made |-> NoWrapper,
           sent |-> <<>>, statuses |-> <<>>, argAfter |-> <<>>]

AccIdle == w = NoWrapper /\ remote = EmptyStore /\ last = NoCall

IdleState ==
    /\ op = "none" /\ phase = "none" /\ target = "ptr" /\ pc = "idle"
    /\ ctxErr = "none" /\ ctxAtStart = "none"
    /\ attempt = 0 /\ wire = 0 /\ outcomes = <<>>
    /\ resp = NoResp /\ terr = NoErr /\ berr = NoErr /\ callErr = NoErr
    /\ listLen = 0 /\ ret = NoErr /\ lateSend = FALSE

PureIdle ==
    /\ fn = "none" /\ fdone = FALSE
    /\ tin = <<>> /\ trimmed = <<>>
    /\ nresp = NoResp /\ nerr = NoErr

\* the bulk tool has not been run
NoSummary == [done |-> FALSE, created |-> 0, failed |-> 0]

BulkIdle ==
    /\ tool = "none" /\ count = 0 /\ concurrent = 0 /\ batch = <<>>
    /\ mpc = "none" /\ idx = 0 /\ loopVar = <<>> /\ wk = <<>>
    /\ sem = 0 /\ errors = <<>> /\ wg = 0 /\ summary = NoSummary

\* the query builder has not been called
QueryIdle == criteria = <<>> /\ additional = <<>> /\ query = <<>>

Init == IdleState /\ PureIdle /\ AccIdle /\ BulkIdle /\ QueryIdle


\* ----------------------------------------------------- the client: actions
\* The caller invokes operation o with decode target t under a context whose
\* Err() is c.  Accessors always hand a pointer to the Client; only a direct
\* caller of Get/PostRouteAndDecode chooses the target.
StartCall(o, t, c) ==
    /\ pc = "idle" /\ fn = "none"
    /\ t = "ptr" \/ o \in DirectOps
    /\ c = "none" \/ HasCtx(o)
    /\ op' = o
    /\ phase' = FirstPhase(o)
    /\ target' = t
    /\ ctxErr' = c
    /\ ctxAtStart' = c
    /\ pc' = "begin"
    /\ UNCHANGED <<callVars, listLen, ret, lateSend, pureVars, accVars, bulkVars, queryVars>>

\* The caller cancels the context (or its deadline passes) while an HTTP call
\* of the operation runs.
Cancel(c) ==
    /\ pc \in {"begin", "exec", "inflight", "returned", "wait", "finish"}
    /\ HasCtx(op)
    /\ ctxErr = "none"
    /\ ctxErr' = c
    /\ UNCHANGED <<op, phase, target, pc, ctxAtStart, callVars, listLen, ret,
                   lateSend, pureVars, accVars, bulkVars, queryVars>>

\* reflect.TypeOf(target).Kind() != reflect.Ptr, the guard of
\* GetRouteAndDecode and PostRouteAndDecode.  reflect.TypeOf(nil) is the nil
\* Type, and calling Kind() on it panics.
TargetCheck(t) ==
    CASE t = "nil" -> "panic"
      [] t = "value" -> "ErrNoPointer"
      [] OTHER -> "ok"

\* Entry of one HTTP call: the target guard, then the request is built.
BeginRequest ==
    /\ pc = "begin"
    /\ attempt' = 0 /\ wire' = 0 /\ outcomes' = <<>>
    /\ resp' = NoResp /\ terr' = NoErr /\ berr' = NoErr
    /\ IF Via(op) = "decode" /\ TargetCheck(target) = "panic"
       THEN pc' = "panic" /\ callErr' = NoErr
       ELSE IF Via(op) = "decode" /\ TargetCheck(target) = "ErrNoPointer"
            THEN pc' = "accessor" /\ callErr' = Wrap(ErrNoPointer, "")
            ELSE pc' = "exec" /\ callErr' = NoErr
    /\ UNCHANGED <<op, phase, target, ctxErr, ctxAtStart, listLen, ret,
                   lateSend, pureVars, accVars, bulkVars, queryVars>>

\* operation() of the Backoff loop: r.Attempt++ and client.execute(r).
\* http.Transport.roundTrip returns ctx.Err() before anything is sent when
\* the request context is already done.
Execute ==
    /\ pc = "exec"
    /\ attempt' = attempt + 1
    /\ IF Cancelled
       THEN /\ terr' = UrlError(ctxErr)
            /\ resp' = NoResp
            /\ outcomes' = Append(outcomes, 0)
            /\ wire' = wire
            /\ pc' = "returned"
       ELSE /\ wire' = wire + 1
            /\ pc' = "inflight"
            /\ UNCHANGED <<terr, resp, outcomes>>
    /\ lateSend' = (lateSend \/ (wire' > wire /\ HasCtx(op) /\ ctxErr # "none"))
    /\ UNCHANGED <<op, phase, target, ctxErr, ctxAtStart, berr, callErr,
                   listLen, ret, pureVars, accVars, bulkVars, queryVars>>

\* The remote answers the request in flight with a status and a body; a list
\* request that succeeds decodes n items.
ServerRespond(st, b, n) ==
    /\ pc = "inflight"
    /\ n = 0 \/ (phase = "list" /\ st = 200)
    /\ resp' = [status |-> st, body |-> b]
    /\ terr' = NoErr
    /\ outcomes' = Append(outcomes, st)
    /\ listLen' = n
    /\ pc' = "returned"
    /\ UNCHANGED <<op, phase, target, ctxErr, ctxAtStart, attempt, wire, berr,
                   callErr, ret, lateSend, pureVars, accVars, bulkVars, queryVars>>

\* The request in flight fails in the transport (connection refused, reset).
NetworkError ==
    /\ pc = "inflight"
    /\ resp' = NoResp
    /\ terr' = UrlError("net")
    /\ outcomes' = Append(outcomes, 0)
    /\ pc' = "returned"
    /\ UNCHANGED <<op, phase, target, ctxErr, ctxAtStart, attempt, wire, berr,
                   callErr, listLen, ret, lateSend, pureVars, accVars, bulkVars, queryVars>>

\* The request in flight is aborted because its context is done.
Abort ==
    /\ pc = "inflight"
    /\ Cancelled
    /\ resp' = NoResp
    /\ terr' = UrlError(ctxErr)
    /\ outcomes' = Append(outcomes, 0)
    /\ pc' = "returned"
    /\ UNCHANGED <<op, phase, target, ctxErr, ctxAtStart, attempt, wire, berr,
                   callErr, listLen, ret, lateSend, pureVars, accVars, bulkVars, queryVars>>


\* a retry condition that retries every 5xx status
RetryCondition_All5xx(r, err) ==
    IF err # NoErr /\ (IsIdentical(err, CtxError("context.Canceled"))
                       \/ IsIdentical(err, CtxError("context.DeadlineExceeded")))
    THEN FALSE
    ELSE r.status >= StatusInternalServerError

\* The retry condition buildBasicHTTPClient registers.  client.execute always
\* hands back a non-nil *Response (StatusCode() is 0 without a raw response);
\* err is the *url.Error of the transport, never the bare context error.
RetryCondition(r, err) ==
    IF err # NoErr /\ (IsIdentical(err, CtxError("context.Canceled"))
                       \/ IsIdentical(err, CtxError("context.DeadlineExceeded")))
    THEN FALSE
    ELSE r.status = StatusServiceUnavailable
         \/ r.status = StatusInternalServerError

\* a retry budget that is one retry too long
RetriesExhausted_Late(a) == a = RetryAttempts + 2

\* `attempt == opts.maxRetries` of the Backoff loop, whose index starts at 0
\* while Request.Attempt starts at 1; maxRetries is SetRetryCount(RetryAttempts)
RetriesExhausted(a) == a = RetryAttempts + 1

\* The Backoff loop after operation() returned: leave on a done context, on a
\* result the retry condition rejects, or when no retries are left; else wait.
BackoffStep ==
    /\ pc = "returned"
    /\ IF Cancelled \/ ~RetryCondition(resp, terr) \/ RetriesExhausted(attempt)
       THEN berr' = terr /\ pc' = "finish"
       ELSE berr' = berr /\ pc' = "wait"
    /\ UNCHANGED <<op, phase, target, ctxErr, ctxAtStart, attempt, wire,
                   outcomes, resp, terr, callErr, listLen, ret, lateSend, pureVars, accVars, bulkVars, queryVars>>

\* select { case <-time.After(waitTime): ... }: the backoff wait elapses.
TimerFires ==
    /\ pc = "wait"
    /\ pc' = "exec"
    /\ UNCHANGED <<op, phase, target, ctxErr, ctxAtStart, callVars, listLen,
                   ret, lateSend, pureVars, accVars, bulkVars, queryVars>>

\* select { ... case <-ctx.Done(): return ctx.Err() }
WaitCancelled ==
    /\ pc = "wait"
    /\ Cancelled
    /\ berr' = CtxError(ctxErr)
    /\ pc' = "finish"
    /\ UNCHANGED <<op, phase, target, ctxErr, ctxAtStart, attempt, wire,
                   outcomes, resp, terr, callErr, listLen, ret, lateSend, pureVars, accVars, bulkVars, queryVars>>

\* the calling code without its ctx.Err() check: the transport error is
\* handed on as it is
FinishError_NoCtxCheck(via, err, done, cerr, r, triedTo) ==
    IF err # NoErr
    THEN CASE via = "decode" -> err
           [] via = "direct" -> Wrap(err, "error updating stock for product")
           [] OTHER ->
                Wrap(err, "error getting options for configurable product from remote")
    ELSE mayReturnErrorForHTTPResponse(r, triedTo)

\* What the code around the request returns from (resp, err):
\* GetRouteAndDecode / PostRouteAndDecode ("decode"),
\* UpdateQuantityForStockItem ("direct"), UpdateOptionsFromRemote ("noctx").
FinishError(via, err, done, cerr, r, triedTo) ==
    IF err # NoErr
    THEN CASE via = "decode" -> IF done THEN CtxError(cerr) ELSE err
           [] via = "direct" ->
                IF done THEN CtxError(cerr)
                ELSE Wrap(err, "error updating stock for product")
           [] OTHER ->
                Wrap(err, "error getting options for configurable product from remote")
    ELSE mayReturnErrorForHTTPResponse(r, triedTo)

\* Request.Execute has returned; the calling code turns (resp, err) into the
\* error of the HTTP call.
Finish ==
    /\ pc = "finish"
    /\ callErr' = FinishError(Via(op), berr, Cancelled, ctxErr, resp,
                              TryTo(op, phase))
    /\ pc' = "accessor"
    /\ UNCHANGED <<op, phase, target, ctxErr, ctxAtStart, attempt, wire,
                   outcomes, resp, terr, berr, listLen, ret, lateSend, pureVars, accVars, bulkVars, queryVars>>

\* The phase an accessor goes on with after a request without error; "none"
\* when the operation is complete.
NextPhase(o, ph) ==
    CASE o = "GetCategoryByName" /\ ph = "list" -> "detail"
      [] o = "GetCategoryByName" /\ ph = "detail" -> "products"
      [] o = "GetOrderByIncrementID" /\ ph = "list" -> "detail"
      [] OTHER -> "none"

\* The error an accessor returns to its caller when the request of phase ph
\* returned err.
AccessorError(o, ph, err) ==
    CASE o = "GetProductBySKU" ->
           Wrap(err, "error updating product from remote when getting by SKU")
      [] o = "GetAttributeByAttributeCode" ->
           Wrap(err, "error updating attribute from remote when getting by code")
      [] o = "GetCategoryByName" /\ ph = "detail" ->
           Wrap(err, "error updating category from remote after getting by name")
      [] o = "GetCategoryByName" /\ ph = "products" ->
           Wrap(Wrap(err, "error updating category products from remote after updating category details"),
                "error updating category from remote after getting by name")
      [] o = "GetOrderByIncrementID" /\ ph = "detail" ->
           Wrap(err, "error updating order from remote after getting by increment ID")
      [] o = "CreateOrReplaceProduct" ->
           Wrap(err, "error creating or replacing product")
      [] OTHER -> err

\* The accessor continues after an HTTP call: it returns the error, returns
\* ErrNotFound for an empty list, issues its next request, or returns nil.
AccessorStep ==
    /\ pc = "accessor"
    /\ IF callErr # NoErr
       THEN /\ ret' = AccessorError(op, phase, callErr)
            /\ pc' = "done" /\ phase' = phase
       ELSE IF phase = "list" /\ listLen = 0
            THEN /\ ret' = ErrNotFound
                 /\ pc' = "done" /\ phase' = phase
            ELSE IF NextPhase(op, phase) # "none"
                 THEN /\ phase' = NextPhase(op, phase)
                      /\ pc' = "begin" /\ ret' = ret
                 ELSE /\ ret' = NoErr
                      /\ pc' = "done" /\ phase' = phase
    /\ UNCHANGED <<op, target, ctxErr, ctxAtStart, callVars, listLen, lateSend, pureVars, accVars, bulkVars, queryVars>>

\* The caller has the result (or the panic has unwound); the client is idle.
Return ==
    /\ pc \in {"done", "panic"}
    /\ op' = "none" /\ phase' = "none" /\ target' = "ptr" /\ pc' = "idle"
    /\ ctxErr' = "none" /\ ctxAtStart' = "none"
    /\ attempt' = 0 /\ wire' = 0 /\ outcomes' = <<>>
    /\ resp' = NoResp /\ terr' = NoErr /\ berr' = NoErr /\ callErr' = NoErr
    /\ listLen' = 0 /\ ret' = NoErr /\ lateSend' = FALSE
    /\ UNCHANGED <<pureVars, accVars, bulkVars, queryVars>>

Next ==
    \/ \E o \in Ops, t \in Targets, c \in CtxErrs \cup {"none"} : StartCall(o, t, c)
    \/ \E c \in CtxErrs : Cancel(c)
    \/ BeginRequest
    \/ Execute
    \/ \E st \in Statuses, b \in Bodies, n \in 0..1 : ServerRespond(st, b, n)
    \/ NetworkError
    \/ Abort
    \/ BackoffStep
    \/ TimerFires
    \/ WaitCancelled
    \/ Finish
    \/ AccessorStep
    \/ Return

Spec == Init /\ [][Next]_vars


\* ------------------------------------------- the helpers of internal.go alone
\* Character strings of length at most n
Strings(n) == UNION { [1..k -> Chars] : k \in 0..n }

\* completed responses: any status of the range with any body
Responses == [status : MinStatus..MaxStatus, body : Bodies]

InitPure ==
    /\ IdleState
    /\ AccIdle
    /\ BulkIdle
    /\ QueryIdle
    /\ fdone = FALSE
    /\ \/ fn = "trim" /\ tin \in Strings(MaxLen) /\ nresp = NoResp
       \/ fn = "normalize" /\ nresp \in Responses /\ tin = <<>>
    /\ trimmed = <<>>
    /\ nerr = NoErr

ApplyTrim ==
    /\ fn = "trim" /\ ~fdone
    /\ trimmed' = mayTrimSurroundingQuotes(tin)
    /\ fdone' = TRUE
    /\ UNCHANGED <<op, phase, target, pc, ctxErr, ctxAtStart, callVars,
                   listLen, ret, lateSend, fn, tin, nresp, nerr, accVars, bulkVars, queryVars>>

ApplyNormalize ==
    /\ fn = "normalize" /\ ~fdone
    /\ nerr' = mayReturnErrorForHTTPResponse(nresp, "tryTo")
    /\ fdone' = TRUE
    /\ UNCHANGED <<op, phase, target, pc, ctxErr, ctxAtStart, callVars,
                   listLen, ret, lateSend, fn, tin, trimmed, nresp, accVars, bulkVars, queryVars>>

NextPure == ApplyTrim \/ ApplyNormalize

SpecPure == InitPure /\ [][NextPure]_vars

\* ------------------------------------------------------------------ claims

\* C1: mayReturnErrorForHTTPResponse classifies every completed response by
\* its status: below 400 it returns nil, for 404 the ErrNotFound sentinel,
\* and for every other status from 400 up an error that wraps ErrBadRequest
\* and carries the status code and the raw body of the response.
C1_Classification ==
    (fn = "normalize" /\ fdone) =>
        /\ nresp.status < 400 => nerr = NoErr
        /\ nresp.status = 404 => IsIdentical(nerr, ErrNotFound)
        /\ (nresp.status >= 400 /\ nresp.status # 404) =>
              /\ ErrorsIs(nerr, ErrBadRequest)
              /\ ~IsIdentical(nerr, ErrBadRequest)
              /\ nerr.status = nresp.status
              /\ nerr.body = nresp.body

C1_Witness ==
    /\ fn = "normalize" /\ fdone
    /\ nresp.status = 503
    /\ ErrorsIs(nerr, ErrBadRequest) /\ nerr.status = 503

\* C10: mayTrimSurroundingQuotes drops the first and the last character
\* exactly when the string has at least two characters and both are a double
\* quote; every other string comes back unchanged.
C10_Trim ==
    (fn = "trim" /\ fdone) =>
        IF Len(tin) >= 2 /\ Head(tin) = Quote /\ tin[Len(tin)] = Quote
        THEN /\ Len(trimmed) = Len(tin) - 2
             /\ \A i \in 1..Len(trimmed) : trimmed[i] = tin[i + 1]
        ELSE trimmed = tin

C10_Witness ==
    /\ fn = "trim" /\ fdone
    /\ tin = <<Quote, "a", "7", Quote>>
    /\ trimmed = <<"a", "7">>


\* the steps the client itself takes; the remote answering, the network
\* failing and the caller cancelling are not under its control
ClientStep ==
    \/ BeginRequest \/ Execute \/ Abort \/ BackoffStep \/ TimerFires
    \/ WaitCancelled \/ Finish \/ AccessorStep \/ Return

\* the client keeps running; nothing obliges the remote to answer
LiveSpec == Spec /\ WF_vars(ClientStep)

\* the last attempt of the current HTTP call was answered with status st
LastAnswered(st) ==
    /\ outcomes # <<>>
    /\ outcomes[Len(outcomes)] = st
    /\ resp.status = st

\* C2: a lookup accessor whose GET is answered with 404 returns the
\* ErrNotFound sentinel itself, so that err == ErrNotFound holds.
C2_NotFoundByIdentity ==
    (pc = "done" /\ op \in LookupOps /\ LastAnswered(StatusNotFound)
        /\ IsIdentical(callErr, ErrNotFound))
    => IsIdentical(ret, ErrNotFound)

\* C3: within one HTTP call every attempt but the last ended with a 500 or
\* 503 response; a 4xx response or a transport error ends the call with
\* that attempt.
C3_RetryOnlyAfter500Or503 ==
    /\ \A i \in 1..(Len(outcomes) - 1) :
          outcomes[i] \in {StatusInternalServerError, StatusServiceUnavailable}
    /\ attempt >= Len(outcomes)
    /\ pc = "wait" =>
          resp.status \in {StatusInternalServerError, StatusServiceUnavailable}
    /\ (pc \in {"finish", "accessor", "done"} /\ outcomes # <<>>
          /\ (outcomes[1] = 0 \/ outcomes[1] \in 400..499)) => attempt = 1

C3_Witness ==
    /\ pc = "accessor"
    /\ outcomes = <<500, 503, 404>>
    /\ attempt = 3

\* C4 as claimed: one HTTP call makes at most 3 attempts, the first included.
C4_AtMostThreeAttempts ==
    attempt <= 3 /\ wire <= 3 /\ Len(outcomes) <= 3

\* C4 amended: one HTTP call makes at most RetryAttempts + 1 = 4 attempts,
\* the first attempt and at most RetryAttempts retries.
C4_AtMostFourAttempts ==
    /\ attempt <= RetryAttempts + 1
    /\ wire <= RetryAttempts + 1
    /\ Len(outcomes) <= RetryAttempts + 1

C4_Witness ==
    /\ pc = "accessor"
    /\ wire = 4
    /\ outcomes = <<500, 500, 500, 500>>

\* the current HTTP call is a POST or PUT that has returned and whose
\* attempts were all answered with a 5xx status
AllAnswered5xx ==
    /\ pc = "accessor"
    /\ Method(op, phase) \in {"POST", "PUT"}
    /\ outcomes # <<>>
    /\ \A i \in 1..Len(outcomes) : outcomes[i] \in 500..599

\* the error of the call carries status and body of the last response
CarriesLastResponse ==
    /\ ErrorsIs(callErr, ErrBadRequest)
    /\ callErr.status = outcomes[Len(outcomes)]
    /\ callErr.status = resp.status
    /\ callErr.body = resp.body

\* C5 as claimed: a POST or PUT whose attempts are all answered with 5xx is
\* retried at most 3 times and returns an error carrying the status code and
\* body of the last response.
C5_LastResponseInError ==
    AllAnswered5xx => (Len(outcomes) <= RetryAttempts + 1 /\ CarriesLastResponse)

\* C5 amended: such a call is retried at most 3 times; its error carries the
\* status code and body of the last response unless the context was done
\* during a backoff wait, and then the call returns ctx.Err().
C5_LastResponseUnlessCancelled ==
    AllAnswered5xx =>
        /\ Len(outcomes) <= RetryAttempts + 1
        /\ IF berr = NoErr
           THEN CarriesLastResponse
           ELSE /\ HasCtx(op) /\ ctxErr # "none"
                /\ IsIdentical(callErr, CtxError(ctxErr))

C5_Witness ==
    /\ AllAnswered5xx
    /\ Method(op, phase) = "PUT"
    /\ outcomes = <<500, 503, 500, 503>>
    /\ callErr.status = 503 /\ callErr.body = <<"7">>

\* C6: Get/PostRouteAndDecode invoked with a context that is already done
\* returns ctx.Err() and is never retried: one attempt, nothing sent.
C6_PreCancelled ==
    (Via(op) = "decode" /\ target = "ptr" /\ ctxAtStart # "none") =>
        /\ attempt <= 1
        /\ wire = 0
        /\ pc \notin {"inflight", "wait"}
        /\ pc = "accessor" => IsIdentical(callErr, CtxError(ctxAtStart))
        /\ pc = "done" => ErrorsIs(ret, CtxError(ctxAtStart))

C6_Witness ==
    /\ pc = "accessor"
    /\ op = "PostRouteAndDecode"
    /\ ctxAtStart = "context.Canceled"
    /\ attempt = 1 /\ wire = 0
    /\ IsIdentical(callErr, CtxError("context.Canceled"))

\* the current HTTP call reached the network layer, has returned, and its
\* context was done before it returned
ReturnedCancelled ==
    /\ pc = "accessor"
    /\ attempt >= 1
    /\ HasCtx(op) /\ ctxErr # "none"

\* C7 as claimed: however a cancellation interleaves with a call, no request
\* is sent after it and an error the call returns is the cancellation error.
C7_AlwaysCancellationError ==
    /\ ~lateSend
    /\ (ReturnedCancelled /\ callErr # NoErr) =>
          IsIdentical(callErr, CtxError(ctxErr))

\* C7 amended: no request is sent after the cancellation.  When the last
\* attempt got no response, or the backoff wait was interrupted, the call
\* returns ctx.Err() itself; when the cancellation fires only after a
\* response was received, the call returns what that response classifies to
\* (nil, ErrNotFound or wrapped ErrBadRequest), never a transport error.
C7_CancellationOrLastResponse ==
    /\ ~lateSend
    /\ ReturnedCancelled =>
          IF berr # NoErr \/ outcomes[Len(outcomes)] = 0
          THEN IsIdentical(callErr, CtxError(ctxErr))
          ELSE /\ resp.status = outcomes[Len(outcomes)]
               /\ resp.status < 400 => callErr = NoErr
               /\ resp.status = 404 => IsIdentical(callErr, ErrNotFound)
               /\ (resp.status >= 400 /\ resp.status # 404) =>
                     (ErrorsIs(callErr, ErrBadRequest)
                      /\ callErr.status = resp.status)

C7_Witness ==
    /\ ReturnedCancelled
    /\ ctxAtStart = "none"
    /\ outcomes = <<503>>
    /\ wire = 1
    /\ IsIdentical(callErr, CtxError("context.Canceled"))

\* C8: every HTTP call eventually returns, also one made without a context
\* or with a context that is never cancelled while the remote never answers.
C8_EveryCallReturns == (pc = "inflight") ~> (pc # "inflight")

\* C9: Get/PostRouteAndDecode with a decode target that is not a pointer
\* (an untyped nil included) return an error wrapping ErrNoPointer without
\* panicking, send no request and make no attempt.
C9_NoPointerIsAnError ==
    (op \in DirectOps /\ target # "ptr" /\ pc # "begin") =>
        /\ pc # "panic"
        /\ attempt = 0 /\ wire = 0
        /\ pc = "accessor" => ErrorsIs(callErr, ErrNoPointer)
        /\ pc = "done" => ErrorsIs(ret, ErrNoPointer)


\* ------------------------------------------------- the entity accessors
\* Each accessor call is one step: the whole method, with every HTTP call
\* it makes.  What an HTTP call comes back with is an input of the step:
\* the store serves the request ("ok"), answers with an error status
\* ("resp"), the transport fails ("net"), or the caller's context is
\* cancelled while the call runs ("ctx").
clientVars_NoBulk == <<op, phase, target, pc, ctxErr, ctxAtStart, callVars,
                       listLen, ret, lateSend, pureVars, queryVars>>

clientVars == <<clientVars_NoBulk, bulkVars>>

\* the store serves the request
Ok == [kind |-> "ok", status |-> 200]

CallOutcomes ==
    {Ok}
      \cup [kind : {"resp"}, status : {StatusBadRequest, StatusNotFound,
                                       StatusInternalServerError}]
      \cup {[kind |-> "net", status |-> 0], [kind |-> "ctx", status |-> 0]}

\* the error Request.Execute returns for an outcome
TransportErr(o) ==
    CASE o.kind = "net" -> UrlError("net")
      [] o.kind = "ctx" -> UrlError("context.Canceled")
      [] OTHER -> NoErr

\* the response an outcome leaves; st is the status the store answers with
\* when it serves the request
Answer(o, st, b) ==
    CASE o.kind = "ok" -> [status |-> st, body |-> b]
      [] o.kind = "resp" -> [status |-> o.status, body |-> <<>>]
      [] OTHER -> NoResp

\* Client.GetRouteAndDecode / PostRouteAndDecode returning for outcome o
DecodeCall(o, st, triedTo) ==
    FinishError("decode", TransportErr(o), o.kind = "ctx", "context.Canceled",
                Answer(o, st, <<>>), triedTo)

\* HTTPClient.R().SetContext(ctx)...: the accessor checks err, then ctx.Err(),
\* wraps the transport error with msg, then normalises the response
DirectCall(o, st, triedTo, msg) ==
    IF TransportErr(o) # NoErr
    THEN IF o.kind = "ctx" THEN CtxError("context.Canceled")
         ELSE Wrap(TransportErr(o), msg)
    ELSE mayReturnErrorForHTTPResponse(Answer(o, st, <<>>), triedTo)

\* the inputs of the step that follows an HTTP call: S when the call with
\* outcome o went through, nothing to choose (d) when the method has
\* returned by then
After(o, S, d) == IF o.kind = "ok" THEN S ELSE {d}

\* StatusCode() of the response an outcome leaves
StatusOf(o, st) == Answer(o, st, <<>>).status

\* StatusCode() of the last response of HTTP calls made in a row, each
\* served with 200 by the store: that of the first which did not go through
RECURSIVE ChainStatus(_)
ChainStatus(os) ==
    IF Len(os) = 1 \/ os[1].kind # "ok" THEN StatusOf(os[1], 200)
    ELSE ChainStatus(Tail(os))

Req(m, route) == [m |-> m, route |-> route]

Range(q) == { q[i] : i \in 1..Len(q) }

\* the SKU a product route addresses: the path segment after "/products/"
ProductKey(route) ==
    IF Len(route) >= 2 /\ SubSeq(route, 1, 2) = products \o Slash
    THEN SubSeq(route, 3, Len(route))
    ELSE <<>>

\* the status the store answers a request on a product route with: the
\* route addresses a product only when what follows "/products/" is one
\* path segment
ProductStatus(route) ==
    IF ProductKey(route) \in remote.products /\ "/" \notin Range(ProductKey(route))
    THEN 200
    ELSE StatusNotFound

\* the caller builds a wrapper as a struct literal (all fields are exported)
NewWrapper(k, n) ==
    /\ w.kind = "none"
    /\ w' = [NoWrapper EXCEPT !.kind = k, !.id = n]
    /\ last' = NoCall
    /\ UNCHANGED <<remote, clientVars>>

\* the caller drops the wrapper; the cart it addressed goes with it (the
\* store's cart is the one the caller's wrapper addresses)
Discard ==
    /\ w.kind # "none"
    /\ w' = NoWrapper
    /\ last' = NoCall
    /\ remote' = [remote EXCEPT !.cart = {}]
    /\ UNCHANGED clientVars

CreateOrReplaceProduct(x, o) ==
    /\ w.kind = "none"
    /\ LET mp == [NoWrapper EXCEPT !.kind = "MProduct", !.sku = x]
           err == DecodeCall(o, 200, "create new product on remote")
       IN  /\ IF err # NoErr
              THEN /\ w' = mp
                   /\ remote' = remote
              ELSE /\ w' = [mp EXCEPT
                              !.route = products \o Slash
                                          \o mayTrimSurroundingQuotes(x)]
                   /\ remote' = [remote EXCEPT !.products = @ \cup {x}]
           /\ last' = [NoCall EXCEPT
                         !.op = "CreateOrReplaceProduct",
                         !.status = StatusOf(o, 200),
                         !.served = (o.kind = "ok"),
                         !.err = IF err # NoErr
                                 THEN Wrap(err, "error creating or replacing product")
                                 ELSE NoErr,
                         !.nonNil = TRUE, !.arg = x,
                         !.reqs = <<Req("POST", products)>>]
    /\ UNCHANGED clientVars

\* MProduct.UpdateProductFromRemote on wrapper mp: the wrapper afterwards
ProductAfterGet(mp, o) ==
    IF DecodeCall(o, ProductStatus(mp.route), "get detailed product from remote") = NoErr
    THEN [mp EXCEPT !.sku = ProductKey(mp.route), !.hydrated = TRUE]
    ELSE mp

GetProductBySKU(x, o) ==
    /\ w.kind = "none"
    /\ LET mProduct == [NoWrapper EXCEPT !.kind = "MProduct",
                                         !.route = products \o Slash \o x]
           err == DecodeCall(o, ProductStatus(mProduct.route),
                             "get detailed product from remote")
       IN  /\ w' = ProductAfterGet(mProduct, o)
           /\ last' = [NoCall EXCEPT
                         !.op = "GetProductBySKU",
                         !.status = StatusOf(o, ProductStatus(mProduct.route)),
                         !.served = (o.kind = "ok"),
                         !.err = IF err # NoErr
                                 THEN Wrap(err, "error updating product from remote when getting by SKU")
                                 ELSE NoErr,
                         !.nonNil = TRUE, !.arg = x,
                         !.reqs = <<Req("GET", mProduct.route)>>]
    /\ UNCHANGED <<remote, clientVars>>

UpdateProductFromRemote(o) ==
    /\ w.kind = "MProduct"
    /\ w' = ProductAfterGet(w, o)
    /\ last' = [NoCall EXCEPT
                  !.op = "UpdateProductFromRemote",
                  !.status = StatusOf(o, ProductStatus(w.route)),
                  !.served = (o.kind = "ok"),
                  !.err = DecodeCall(o, ProductStatus(w.route),
                                     "get detailed product from remote"),
                  !.nonNil = TRUE,
                  !.reqs = <<Req("GET", w.route)>>]
    /\ UNCHANGED <<remote, clientVars>>

UpdateQuantityForStockItem(o) ==
    /\ w.kind = "MProduct"
    /\ LET endpoint == w.route \o Slash \o stockItemsRelative \o Slash \o <<"1">>
       IN  last' = [NoCall EXCEPT
                      !.op = "UpdateQuantityForStockItem",
                      !.status = StatusOf(o, ProductStatus(w.route)),
                      !.served = (o.kind = "ok"),
                      !.err = DirectCall(o, ProductStatus(w.route),
                                         "update stock for product",
                                         "error updating stock for product"),
                      !.nonNil = TRUE,
                      !.reqs = <<Req("PUT", endpoint)>>]
    /\ UNCHANGED <<w, remote, clientVars>>

\* ---------------------------------------------------------- categories
categories == <<"/categories">>

categoriesList == <<"/categories/list">>

categoriesProductsRelative == <<"products">>

\* entity ids the store hands out
Ids == {1, 2}

\* what a list request can decode: the ids of the matching entities in order
ListResults == { <<>>, <<1>>, <<2>>, <<1, 2>>, <<2, 1>> }

Digits == <<"0", "1", "2", "3", "4", "5", "6", "7", "8", "9">>

RECURSIVE DecimalOf(_)
DecimalOf(n) ==
    IF n < 10 THEN <<Digits[n + 1]>>
    ELSE DecimalOf(n \div 10) \o <<Digits[(n % 10) + 1]>>

\* fmt.Sprintf("%d", n)
Itoa(n) == IF n < 0 THEN <<"-">> \o DecimalOf(0 - n) ELSE DecimalOf(n)

\* taking the last match of a list response
FirstMatch_Last(ids) == ids[Len(ids)]

\* response.Categories[0], response.Items[0].EntityID
FirstMatch(ids) == ids[1]

\* search endpoint: route, "?" and the encoded search criteria
SearchRoute(route) == route \o <<"?">> \o <<"searchCriteria">>

\* CreateCategory assigning Route before it looks at the error
CreateCategory_RouteFirst(o, n) ==
    /\ w.kind = "none"
    /\ LET mC == [NoWrapper EXCEPT !.kind = "MCategory"]
           err == DecodeCall(o, 200, "create category")
           id == IF err # NoErr THEN 0 ELSE n
       IN  /\ w' = [mC EXCEPT !.id = id,
                              !.route = categories \o Slash \o Itoa(id)]
           /\ last' = [NoCall EXCEPT !.op = "CreateCategory",
                                     !.status = StatusOf(o, 200),
                                     !.served = (o.kind = "ok"),
                      !.err = err,
                                     !.nonNil = TRUE,
                                     !.reqs = <<Req("POST", categories)>>]
    /\ UNCHANGED <<remote, clientVars>>

CreateCategory(o, n) ==
    /\ w.kind = "none"
    /\ LET mC == [NoWrapper EXCEPT !.kind = "MCategory"]
           err == DecodeCall(o, 200, "create category")
       IN  /\ w' = IF err # NoErr THEN mC
                   ELSE [mC EXCEPT !.id = n,
                                   !.route = categories \o Slash \o Itoa(n)]
           /\ last' = [NoCall EXCEPT !.op = "CreateCategory",
                                     !.status = StatusOf(o, 200),
                                     !.served = (o.kind = "ok"),
                      !.err = err,
                                     !.nonNil = TRUE,
                                     !.reqs = <<Req("POST", categories)>>]
    /\ UNCHANGED <<remote, clientVars>>

\* MCategory.UpdateCategoryProductsFromRemote on wrapper mC
CategoryProducts(mC, o) ==
    [w |-> mC,
     err |-> DecodeCall(o, 200, "get category products from remote"),
     reqs |-> <<Req("GET", mC.route \o Slash \o categoriesProductsRelative)>>]

\* MCategory.UpdateCategoryFromRemote on wrapper mC
CategoryUpdate(mC, o2, o3) ==
    LET err == DecodeCall(o2, 200, "get category from remote")
        got == [mC EXCEPT !.hydrated = TRUE]
        pr  == CategoryProducts(got, o3)
    IN  IF err # NoErr
        THEN [w |-> mC, err |-> err, reqs |-> <<Req("GET", mC.route)>>]
        ELSE [w |-> pr.w,
              err |-> IF pr.err # NoErr
                      THEN Wrap(pr.err, "error updating category products from remote after updating category details")
                      ELSE NoErr,
              reqs |-> <<Req("GET", mC.route)>> \o pr.reqs]

GetCategoryByName(o1, ids, o2, o3) ==
    /\ w.kind = "none"
    /\ LET err == DecodeCall(o1, 200, "get category by name from remote")
           list == <<Req("GET", SearchRoute(categoriesList))>>
           mC == [NoWrapper EXCEPT
                    !.kind = "MCategory", !.id = FirstMatch(ids),
                    !.route = categories \o Slash \o Itoa(FirstMatch(ids))]
           up == CategoryUpdate(mC, o2, o3)
           call == [NoCall EXCEPT !.op = "GetCategoryByName",
                                  !.status = ChainStatus(<<o1, o2, o3>>),
                                  !.served = (o1.kind = "ok" /\ o2.kind = "ok" /\ o3.kind = "ok"),
                      !.reqs = list]
       IN  IF err # NoErr
           THEN w' = w /\ last' = [call EXCEPT !.err = err]
           ELSE IF Len(ids) = 0
                THEN w' = w /\ last' = [call EXCEPT !.err = ErrNotFound,
                                                    !.listed = 0]
                ELSE /\ w' = up.w
                     /\ last' = [call EXCEPT
                                   !.err = IF up.err # NoErr
                                           THEN Wrap(up.err, "error updating category from remote after getting by name")
                                           ELSE NoErr,
                                   !.nonNil = TRUE, !.arg = ids,
                                   !.listed = Len(ids),
                                   !.reqs = list \o up.reqs]
    /\ UNCHANGED <<remote, clientVars>>

UpdateCategoryFromRemote(o2, o3) ==
    /\ w.kind = "MCategory"
    /\ LET up == CategoryUpdate(w, o2, o3)
       IN  /\ w' = up.w
           /\ last' = [NoCall EXCEPT !.op = "UpdateCategoryFromRemote",
                                     !.status = ChainStatus(<<o2, o3>>),
                                     !.served = (o2.kind = "ok" /\ o3.kind = "ok"),
                                     !.err = up.err, !.nonNil = TRUE,
                                     !.reqs = up.reqs]
    /\ UNCHANGED <<remote, clientVars>>

UpdateCategoryProductsFromRemote(o) ==
    /\ w.kind = "MCategory"
    /\ LET pr == CategoryProducts(w, o)
       IN  /\ w' = pr.w
           /\ last' = [NoCall EXCEPT !.op = "UpdateCategoryProductsFromRemote",
                                     !.status = StatusOf(o, 200),
                                     !.served = (o.kind = "ok"),
                                     !.err = pr.err, !.nonNil = TRUE,
                                     !.reqs = pr.reqs]
    /\ UNCHANGED <<remote, clientVars>>

\* -------------------------------------------------------------- orders
Orders == <<"/orders">>

OrderComments == <<"comments">>

\* the guard deriving the route whenever the entity has an id
OrderRoute_Always(mo) ==
    IF mo.id # 0
    THEN Orders \o Slash \o Itoa(mo.id)
    ELSE mo.route

\* the guard at the head of MOrder.UpdateFromRemote and MOrder.AddComment:
\* the route the method goes on with, <<>> when it returns its error
OrderRoute(mo) ==
    IF mo.route = <<>> /\ mo.id # 0
    THEN Orders \o Slash \o Itoa(mo.id)
    ELSE mo.route

\* MOrder.UpdateFromRemote on wrapper mo
OrderUpdate(mo, o) ==
    LET route == OrderRoute(mo)
        err == DecodeCall(o, 200, "get detailed order object from magento2-api")
    IN  IF route = <<>>
        THEN [w |-> mo,
              err |-> Sentinel("order route is not set, cannot update from remote"),
              reqs |-> <<>>]
        ELSE [w |-> [mo EXCEPT !.route = route,
                               !.hydrated = (err = NoErr) \/ @],
              err |-> err,
              reqs |-> <<Req("GET", route)>>]

GetOrderByIncrementID(o1, ids, o2) ==
    /\ w.kind = "none"
    /\ LET err == DecodeCall(o1, 200, "get order by increment_id from remote")
           list == <<Req("GET", SearchRoute(Orders))>>
           mOrder == [NoWrapper EXCEPT
                        !.kind = "MOrder", !.id = FirstMatch(ids),
                        !.route = Orders \o Slash \o Itoa(FirstMatch(ids))]
           up == OrderUpdate(mOrder, o2)
           call == [NoCall EXCEPT !.op = "GetOrderByIncrementID",
                                  !.status = ChainStatus(<<o1, o2>>),
                                  !.served = (o1.kind = "ok" /\ o2.kind = "ok"),
                      !.reqs = list]
       IN  IF err # NoErr
           THEN w' = w /\ last' = [call EXCEPT !.err = err]
           ELSE IF Len(ids) = 0
                THEN w' = w /\ last' = [call EXCEPT !.err = ErrNotFound,
                                                    !.listed = 0]
                ELSE /\ w' = up.w
                     /\ last' = [call EXCEPT
                                   !.err = IF up.err # NoErr
                                           THEN Wrap(up.err, "error updating order from remote after getting by increment ID")
                                           ELSE NoErr,
                                   !.nonNil = TRUE, !.arg = ids,
                                   !.listed = Len(ids),
                                   !.reqs = list \o up.reqs]
    /\ UNCHANGED <<remote, clientVars>>

MOrder_UpdateFromRemote(o) ==
    /\ w.kind = "MOrder"
    /\ LET up == OrderUpdate(w, o)
       IN  /\ w' = up.w
           /\ last' = [NoCall EXCEPT !.op = "MOrder.UpdateFromRemote",
                                     !.status = (IF up.reqs = <<>> THEN 0 ELSE StatusOf(o, 200)),
                                     !.served = (up.reqs = <<>> \/ o.kind = "ok"),
                                     !.err = up.err, !.nonNil = TRUE,
                                     !.reqs = up.reqs]
    /\ UNCHANGED <<remote, clientVars>>

AddComment(o) ==
    /\ w.kind = "MOrder"
    /\ LET route == OrderRoute(w)
       IN  IF route = <<>>
           THEN /\ w' = w
                /\ last' = [NoCall EXCEPT
                              !.op = "AddComment",
                              !.err = Sentinel("order route is not set, cannot add comment"),
                              !.nonNil = TRUE]
           ELSE /\ w' = [w EXCEPT !.route = route]
                /\ last' = [NoCall EXCEPT
                              !.op = "AddComment",
                              !.status = StatusOf(o, 200),
                              !.served = (o.kind = "ok"),
                              !.err = DecodeCall(o, 200, "add comment to order"),
                              !.nonNil = TRUE,
                              !.reqs = <<Req("POST", route \o Slash \o OrderComments)>>]
    /\ UNCHANGED <<remote, clientVars>>

\* the response of the POST is decoded into mo.Order: n is the entity_id
\* it carries
UpdateEntity(o, n) ==
    /\ w.kind = "MOrder"
    /\ LET err == DecodeCall(o, 200, "update order entity on remote")
       IN  /\ w' = IF err = NoErr THEN [w EXCEPT !.id = n] ELSE w
           /\ last' = [NoCall EXCEPT !.op = "UpdateEntity",
                                     !.status = StatusOf(o, 200),
                                     !.served = (o.kind = "ok"),
                      !.err = err,
                                     !.nonNil = TRUE,
                                     !.reqs = <<Req("POST", Orders)>>]
    /\ UNCHANGED <<remote, clientVars>>

\* ----------------------------------------------------------- attributes
productsAttribute == <<"/products/attributes">>

productsAttributeOptions == <<"options">>

\* attribute codes callers use
Codes == { <<"c">> }

\* option values the store assigns
OptionValues == { <<"7">>, <<"8">> }

IdPrefix == <<"i", "d", "_">>

\* the raw bodies the store answers an add-option POST with when it has
\* stored the option under value v
OptionBodies(v) ==
    { <<Quote>> \o IdPrefix \o v \o <<Quote>>,
      <<Quote>> \o v \o <<Quote>>,
      IdPrefix \o v \o <<"\n">> }

IsSpace(c) == c \in {" ", "\n"}

\* strings.TrimSpace
TrimSpace(q) ==
    LET keep == { i \in 1..Len(q) : ~IsSpace(q[i]) }
        lo == CHOOSE i \in keep : \A j \in keep : i <= j
        hi == CHOOSE i \in keep : \A j \in keep : i >= j
    IN  IF keep = {} THEN <<>> ELSE SubSeq(q, lo, hi)

\* the raw body taken as it is
RespString_Raw(b) == b

\* resty Response.String(): the body with surrounding white space trimmed
RespString(b) == TrimSpace(b)

\* strings.TrimPrefix
TrimPrefix(q, pre) ==
    IF Len(q) >= Len(pre) /\ SubSeq(q, 1, Len(pre)) = pre
    THEN SubSeq(q, Len(pre) + 1, Len(q))
    ELSE q

\* MAttribute.UpdateAttributeFromRemote on wrapper mas: the store answers
\* with the attribute and its options
AttributeUpdate(mas, o) ==
    LET err == DecodeCall(o, 200, "update local attribute from remote")
    IN  [w |-> IF err = NoErr
               THEN [mas EXCEPT !.options = remote.options, !.hydrated = TRUE]
               ELSE mas,
         err |-> err,
         reqs |-> <<Req("GET", mas.route)>>]

CreateAttribute(code, o) ==
    /\ w.kind = "none"
    /\ LET mAttribute == [NoWrapper EXCEPT !.kind = "MAttribute"]
           err == DecodeCall(o, 200, "create attribute")
       IN  /\ w' = IF err # NoErr THEN mAttribute
                   ELSE [mAttribute EXCEPT
                           !.sku = code, !.options = remote.options,
                           !.route = productsAttribute \o Slash \o code]
           /\ last' = [NoCall EXCEPT !.op = "CreateAttribute",
                                     !.status = StatusOf(o, 200),
                                     !.served = (o.kind = "ok"),
                      !.err = err,
                                     !.nonNil = TRUE, !.arg = code,
                                     !.reqs = <<Req("POST", productsAttribute)>>]
    /\ UNCHANGED <<remote, clientVars>>

GetAttributeByAttributeCode(code, o) ==
    /\ w.kind = "none"
    /\ LET mAttribute == [NoWrapper EXCEPT
                            !.kind = "MAttribute", !.sku = code,
                            !.route = productsAttribute \o Slash \o code]
           up == AttributeUpdate(mAttribute, o)
           call == [NoCall EXCEPT !.op = "GetAttributeByAttributeCode",
                                  !.status = StatusOf(o, 200),
                                  !.served = (o.kind = "ok"),
                                  !.arg = code, !.reqs = up.reqs]
       IN  IF up.err # NoErr
           THEN /\ w' = w
                /\ last' = [call EXCEPT
                              !.err = Wrap(up.err, "error updating attribute from remote when getting by code")]
           ELSE /\ w' = up.w
                /\ last' = [call EXCEPT !.nonNil = TRUE]
    /\ UNCHANGED <<remote, clientVars>>

UpdateAttributeFromRemote(o) ==
    /\ w.kind = "MAttribute"
    /\ LET up == AttributeUpdate(w, o)
       IN  /\ w' = up.w
           /\ last' = [NoCall EXCEPT !.op = "UpdateAttributeFromRemote",
                                     !.status = StatusOf(o, 200),
                                     !.served = (o.kind = "ok"),
                                     !.err = up.err, !.nonNil = TRUE,
                                     !.reqs = up.reqs]
    /\ UNCHANGED <<remote, clientVars>>

\* PUT with SetResult(mas.Attribute): a 2xx answer is decoded into the
\* attribute
UpdateAttributeOnRemote(o) ==
    /\ w.kind = "MAttribute"
    /\ LET err == DirectCall(o, 200, "update remote attribute from local",
                             "error updating attribute on remote")
       IN  /\ w' = IF o.kind = "ok" THEN [w EXCEPT !.options = remote.options]
                   ELSE w
           /\ last' = [NoCall EXCEPT !.op = "UpdateAttributeOnRemote",
                                     !.status = StatusOf(o, 200),
                                     !.served = (o.kind = "ok"),
                                     !.err = err, !.nonNil = TRUE,
                                     !.reqs = <<Req("PUT", w.route)>>]
    /\ UNCHANGED <<remote, clientVars>>

\* the option value AddOption extracts from the response
OptionValue_NoPrefixTrim(r) ==
    mayTrimSurroundingQuotes(RespString(r.body))

OptionValue(r) ==
    TrimPrefix(mayTrimSurroundingQuotes(RespString(r.body)), IdPrefix)

\* The store, serving the POST, stores the option under value v and answers
\* with body b; the re-fetch then runs against the store as it is after the
\* POST.
AddOption(o1, v, b, o2) ==
    /\ w.kind = "MAttribute"
    /\ LET endpoint == w.route \o Slash \o productsAttributeOptions
           ans == Answer(o1, 200, b)
           err == DirectCall(o1, 200, "assign option to attribute",
                             "error assigning option to attribute")
           after == IF o1.kind = "ok"
                    THEN [remote EXCEPT !.options = @ \cup {v}]
                    ELSE remote
           up2 == DecodeCall(o2, 200, "update local attribute from remote")
           call == [NoCall EXCEPT !.op = "AddOption",
                                  !.status = ChainStatus(<<o1, o2>>),
                                  !.served = (o1.kind = "ok" /\ o2.kind = "ok"),
                      !.nonNil = TRUE,
                                  !.reqs = <<Req("POST", endpoint)>>]
       IN  /\ remote' = after
           /\ IF err # NoErr
              THEN /\ w' = w
                   /\ last' = [call EXCEPT !.err = err]
              ELSE /\ w' = IF up2 = NoErr
                           THEN [w EXCEPT !.options = after.options,
                                          !.hydrated = TRUE]
                           ELSE w
                   /\ last' = [call EXCEPT
                                 !.val = OptionValue(ans),
                                 !.body = ans.body, !.arg = v,
                                 !.err = IF up2 # NoErr
                                         THEN Wrap(up2, "error updating attribute from remote after adding option")
                                         ELSE NoErr,
                                 !.reqs = @ \o <<Req("GET", w.route)>>]
    /\ UNCHANGED clientVars

\* ---------------------------------------------------------------- carts
guestCart == <<"/guest-carts">>

cartItems == <<"/items">>

cartPlaceOrder == <<"/order">>

\* the API clients a caller has built
Clients == {"c1", "c2"}

\* raw bodies the store answers the cart-creation POST with
CartBodies == { <<Quote, "q", Quote>>, <<"q", "\n">>, <<Quote, Quote>> }

\* raw bodies the store answers the place-order PUT with
OrderBodies == { <<Quote, "7", Quote>>, <<"1", "2">>, <<Quote, "q", Quote>> }

\* the cart items callers add: ItemID and SKU
CartItems == { [itemID |-> 1, sku |-> <<"a">>, quoteID |-> <<>>],
               [itemID |-> 2, sku |-> <<"a", "/", "b">>, quoteID |-> <<"x">>] }

ItemIds == { i.itemID : i \in CartItems }

\* one item, or two different items in either order
ItemLists == { <<i>> : i \in CartItems } \cup
             UNION { { <<i, j>> : j \in CartItems \ {i} } : i \in CartItems }

\* &ItemNotFoundError{ItemID: id}
ItemNotFoundError(id) ==
    [base |-> "ItemNotFoundError", layers |-> <<>>, status |-> 0,
     body |-> <<>>, itemID |-> id]

DigitValue(c) == CHOOSE k \in 0..9 : Digits[k + 1] = c

RECURSIVE DecimalValue(_)
DecimalValue(q) ==
    IF q = <<>> THEN 0
    ELSE 10 * DecimalValue(SubSeq(q, 1, Len(q) - 1)) + DigitValue(q[Len(q)])

\* Atoi reading the last digit only
Atoi_LastDigit(q) ==
    LET ok == q # <<>> /\ \A i \in 1..Len(q) : q[i] \in Range(Digits)
    IN  [ok |-> ok, n |-> IF ok THEN DigitValue(q[Len(q)]) ELSE 0]

\* strconv.Atoi: an optional sign and at least one decimal digit
Atoi(q) ==
    LET signed == q # <<>> /\ q[1] \in {"+", "-"}
        d == IF signed THEN Tail(q) ELSE q
        ok == d # <<>> /\ \A i \in 1..Len(d) : d[i] \in Range(Digits)
    IN  [ok |-> ok,
         n |-> IF ~ok THEN 0
               ELSE IF signed /\ q[1] = "-" THEN 0 - DecimalValue(d)
               ELSE DecimalValue(d)]

\* the item ids of the store's cart as the cart GET lists them
RECURSIVE ListOf(_)
ListOf(S) ==
    IF S = {} THEN <<>>
    ELSE LET m == CHOOSE x \in S : \A y \in S : x <= y
         IN  <<m>> \o ListOf(S \ {m})

\* MCart.UpdateFromRemote fetching the cart twice
CartUpdate_Twice(cart, o) ==
    LET err == DecodeCall(o, 200, "get detailed cart object from magento2-api")
    IN  [w |-> IF err = NoErr
               THEN [cart EXCEPT !.hydrated = TRUE, !.items = ListOf(remote.cart)]
               ELSE cart,
         err |-> err,
         reqs |-> <<Req("GET", cart.route), Req("GET", cart.route)>>]

\* MCart.UpdateFromRemote on wrapper cart
CartUpdate(cart, o) ==
    LET err == DecodeCall(o, 200, "get detailed cart object from magento2-api")
    IN  [w |-> IF err = NoErr
               THEN [cart EXCEPT !.hydrated = TRUE, !.items = ListOf(remote.cart)]
               ELSE cart,
         err |-> err,
         reqs |-> <<Req("GET", cart.route)>>]

\* NewGuestCartFromAPIClient with initializeGuestCart: the POST is answered
\* with body b
NewGuestCartFromAPIClient(c, o1, b, o2) ==
    /\ w.kind = "none"
    /\ LET err == DirectCall(o1, 200, "initialize cart for guest",
                             "error initializing guest cart")
           quoteID == mayTrimSurroundingQuotes(RespString(b))
           cart == [NoWrapper EXCEPT !.kind = "MCart", !.client = c,
                                     !.route = guestCart \o Slash \o quoteID,
                                     !.quoteID = quoteID]
           up == CartUpdate(cart, o2)
           call == [NoCall EXCEPT !.op = "NewGuestCartFromAPIClient",
                                  !.served = (o1.kind = "ok" /\ o2.kind = "ok"),
                                  !.reqs = <<Req("POST", guestCart)>>,
                                  !.status = Answer(o1, 200, b).status]
       IN  IF err # NoErr
           THEN /\ w' = w
                /\ last' = [call EXCEPT
                              !.err = Wrap(err, "error initializing guest cart")]
           ELSE IF up.err # NoErr
                THEN /\ w' = w
                     /\ last' = [call EXCEPT
                                   !.err = Wrap(Wrap(up.err, "error updating guest cart from remote after initialization"),
                                                "error initializing guest cart"),
                                   !.body = b,
                                   !.status = Answer(o2, 200, <<>>).status,
                                   !.reqs = @ \o up.reqs]
                ELSE /\ w' = up.w
                     /\ last' = [call EXCEPT !.nonNil = TRUE, !.body = b,
                                             !.status = 200,
                                             !.reqs = @ \o up.reqs]
    /\ UNCHANGED <<remote, clientVars>>

customerCart == <<"/carts/mine">>

\* NewCustomerCartFromAPIClient with initializeCustomerCart
NewCustomerCartFromAPIClient(c, o1, b, o2) ==
    /\ w.kind = "none"
    /\ LET err == DirectCall(o1, 200, "initialize cart for customer",
                             "error initializing customer cart")
           quoteID == mayTrimSurroundingQuotes(RespString(b))
           cart == [NoWrapper EXCEPT !.kind = "MCart", !.client = c,
                                     !.route = customerCart,
                                     !.quoteID = quoteID]
           up == CartUpdate(cart, o2)
           call == [NoCall EXCEPT !.op = "NewCustomerCartFromAPIClient",
                                  !.served = (o1.kind = "ok" /\ o2.kind = "ok"),
                                  !.reqs = <<Req("POST", customerCart)>>,
                                  !.status = Answer(o1, 200, b).status]
       IN  IF err # NoErr
           THEN /\ w' = w
                /\ last' = [call EXCEPT
                              !.err = Wrap(err, "error initializing customer cart")]
           ELSE IF up.err # NoErr
                THEN /\ w' = w
                     /\ last' = [call EXCEPT
                                   !.err = Wrap(Wrap(up.err, "error updating customer cart from remote after initialization"),
                                                "error initializing customer cart"),
                                   !.body = b,
                                   !.status = Answer(o2, 200, <<>>).status,
                                   !.reqs = @ \o up.reqs]
                ELSE /\ w' = up.w
                     /\ last' = [call EXCEPT !.nonNil = TRUE, !.body = b,
                                             !.status = 200,
                                             !.reqs = @ \o up.reqs]
    /\ UNCHANGED <<remote, clientVars>>

MCart_UpdateFromRemote(o) ==
    /\ w.kind = "MCart"
    /\ LET up == CartUpdate(w, o)
       IN  /\ w' = up.w
           /\ last' = [NoCall EXCEPT !.op = "MCart.UpdateFromRemote",
                                     !.served = (o.kind = "ok"),
                                     !.err = up.err, !.nonNil = TRUE,
                                     !.status = Answer(o, 200, <<>>).status,
                                     !.reqs = up.reqs]
    /\ UNCHANGED <<remote, clientVars>>

\* the outcomes of n HTTP calls made in a row, up to the first that did
\* not go through (nothing is chosen for the calls after it)
OutcomeLists(n) ==
    { f \in [1..n -> CallOutcomes] :
        \A i \in 2..n : f[i - 1].kind # "ok" => f[i] = Ok }

\* the status the store answers an add-item POST with: 404 when it has no
\* product with the item's SKU
ItemStatus(item) ==
    IF item.sku \in remote.products THEN 200 ELSE StatusNotFound

\* what the loop body of AddItems returns for one item
AddItemError_Generic(item, o) ==
    DecodeCall(o, ItemStatus(item), "add item to cart")

AddItemError(item, o) ==
    LET err == DecodeCall(o, ItemStatus(item), "add item to cart")
    IN  IF err # NoErr /\ ErrorsIs(err, ErrNotFound)
        THEN ItemNotFoundError(item.itemID)
        ELSE err

\* the CartItem of the payload, posted as the caller gave it
SentItem_AsGiven(cart, item) == item

\* the CartItem of the payload: item.QuoteID = cart.QuoteID on the loop's copy
SentItem(cart, item) == [item EXCEPT !.quoteID = cart.quoteID]

\* MCart.AddItems: outs[i] is the outcome of the POST for items[i]; the loop
\* stops at the first item whose POST returns an error
AddItems(items, outs) ==
    /\ w.kind = "MCart"
    /\ LET failed == { i \in 1..Len(items) : AddItemError(items[i], outs[i]) # NoErr }
           k == IF failed = {} THEN Len(items)
                ELSE CHOOSE i \in failed : \A j \in failed : i <= j
       IN  /\ last' = [NoCall EXCEPT
                         !.op = "AddItems",
                         !.served = (\A i \in 1..Len(items) : outs[i].kind = "ok"),
                         !.nonNil = TRUE,
                         !.err = AddItemError(items[k], outs[k]),
                         !.arg = items,
                         !.argAfter = items,
                         !.status = Answer(outs[k], ItemStatus(items[k]), <<>>).status,
                         !.reqs = [i \in 1..k |-> Req("POST", w.route \o cartItems)],
                         !.sent = [i \in 1..k |-> SentItem(w, items[i])],
                         !.statuses = [i \in 1..k |->
                                         Answer(outs[i], ItemStatus(items[i]), <<>>).status]]
           /\ remote' = [remote EXCEPT
                           !.cart = @ \cup { items[i].itemID : i \in (1..k) \ failed }]
    /\ UNCHANGED <<w, clientVars>>

\* the status the store answers the DELETE of an item with: 404 when the
\* cart holds no such item
DeleteStatus(itemID) ==
    IF itemID \in remote.cart THEN 200 ELSE StatusNotFound

\* what MCart.DeleteItem returns
DeleteItemError(itemID, o) ==
    DirectCall(o, DeleteStatus(itemID), "delete itemID",
               "error deleting item from cart")

DeleteRoute(cart, itemID) == cart.route \o cartItems \o Slash \o Itoa(itemID)

MCart_DeleteItem(itemID, o) ==
    /\ w.kind = "MCart"
    /\ last' = [NoCall EXCEPT
                  !.op = "MCart.DeleteItem",
                  !.served = (o.kind = "ok"),
                  !.nonNil = TRUE,
                  !.err = DeleteItemError(itemID, o),
                  !.status = Answer(o, DeleteStatus(itemID), <<>>).status,
                  !.reqs = <<Req("DELETE", DeleteRoute(w, itemID))>>,
                  !.statuses = <<Answer(o, DeleteStatus(itemID), <<>>).status>>]
    /\ remote' = IF DeleteItemError(itemID, o) = NoErr
                 THEN [remote EXCEPT !.cart = @ \ {itemID}]
                 ELSE remote
    /\ UNCHANGED <<w, clientVars>>

\* deleting the items from the last one of the list backwards
DeleteOrder_Reversed(items) == [i \in 1..Len(items) |-> items[Len(items) + 1 - i]]

\* the order in which DeleteAllItems goes through cart.Cart.Items
DeleteOrder(items) == items

\* MCart.DeleteAllItems: o0 is the outcome of the re-fetch, outs[i] that of
\* the i-th DELETE; the loop stops at the first DELETE that returns an error
MCart_DeleteAllItems(o0, outs) ==
    /\ w.kind = "MCart"
    /\ LET up == CartUpdate(w, o0)
           ids == DeleteOrder(up.w.items)
           failed == { i \in 1..Len(ids) : DeleteItemError(ids[i], outs[i]) # NoErr }
           k == IF failed = {} THEN Len(ids)
                ELSE CHOOSE i \in failed : \A j \in failed : i <= j
           call == [NoCall EXCEPT !.op = "MCart.DeleteAllItems",
                                  !.nonNil = TRUE,
                                  !.listed = Len(ids)]
       IN  /\ w' = up.w
           /\ IF up.err # NoErr
              THEN /\ last' = [call EXCEPT
                                 !.err = Wrap(up.err, "error updating cart before deleting all items"),
                                 !.served = FALSE,
                                 !.listed = -1,
                                 !.status = Answer(o0, 200, <<>>).status,
                                 !.reqs = up.reqs]
                   /\ remote' = remote
              ELSE /\ last' = [call EXCEPT
                                 !.err = IF failed = {} THEN NoErr
                                         ELSE Wrap(DeleteItemError(ids[k], outs[k]),
                                                   "error deleting item during delete all items"),
                                 !.served = (\A i \in 1..Len(ids) : outs[i].kind = "ok"),
                                 !.arg = up.w.items,
                                 !.status = IF ids = <<>> THEN 200
                                            ELSE Answer(outs[k], DeleteStatus(ids[k]), <<>>).status,
                                 !.reqs = up.reqs \o
                                          [i \in 1..k |-> Req("DELETE", DeleteRoute(w, ids[i]))],
                                 !.statuses = [i \in 1..k |->
                                                 Answer(outs[i], DeleteStatus(ids[i]), <<>>).status]]
                   /\ remote' = [remote EXCEPT
                                   !.cart = @ \ { ids[i] : i \in (1..k) \ failed }]
    /\ UNCHANGED clientVars

\* MCart.CreateOrder: the PUT is answered with body b
CreateOrder(o, b) ==
    /\ w.kind = "MCart"
    /\ LET err == DirectCall(o, 200, "create order", "error creating order")
           orderIDString == mayTrimSurroundingQuotes(RespString(b))
           orderID == Atoi(orderIDString)
           call == [NoCall EXCEPT
                      !.op = "CreateOrder",
                      !.served = (o.kind = "ok"),
                      !.status = Answer(o, 200, b).status,
                      !.reqs = <<Req("PUT", w.route \o cartPlaceOrder)>>]
       IN  IF err # NoErr
           THEN last' = [call EXCEPT !.err = err]
           ELSE IF ~orderID.ok
                THEN last' = [call EXCEPT
                                !.body = b,
                                !.err = Wrap(Sentinel("strconv.ErrSyntax"),
                                             "unexpected error while extracting orderID")]
                ELSE last' = [call EXCEPT
                                !.body = b, !.nonNil = TRUE,
                                !.made = [NoWrapper EXCEPT
                                            !.kind = "MOrder",
                                            !.route = Orders \o Slash \o orderIDString,
                                            !.id = orderID.n,
                                            !.client = w.client]]
    /\ UNCHANGED <<w, remote, clientVars>>

NextAcc ==
    \/ \E k \in {"MProduct", "MCategory", "MAttribute", "MOrder", "MCart"}, n \in {0} \cup Ids :
          NewWrapper(k, n)
    \/ Discard
    \/ \E x \in Skus, o \in CallOutcomes : CreateOrReplaceProduct(x, o)
    \/ \E x \in Skus, o \in CallOutcomes : GetProductBySKU(x, o)
    \/ \E o \in CallOutcomes : UpdateProductFromRemote(o)
    \/ \E o \in CallOutcomes : UpdateQuantityForStockItem(o)
    \/ \E o \in CallOutcomes, n \in Ids : CreateCategory(o, n)
    \/ \E o1 \in CallOutcomes : \E ids \in After(o1, ListResults, <<>>) :
          \E o2 \in (IF ids = <<>> THEN {Ok} ELSE CallOutcomes) :
             \E o3 \in (IF ids = <<>> THEN {Ok}
                        ELSE After(o2, CallOutcomes, Ok)) :
                GetCategoryByName(o1, ids, o2, o3)
    \/ \E o2 \in CallOutcomes : \E o3 \in After(o2, CallOutcomes, Ok) :
          UpdateCategoryFromRemote(o2, o3)
    \/ \E o \in CallOutcomes : UpdateCategoryProductsFromRemote(o)
    \/ \E o1 \in CallOutcomes : \E ids \in After(o1, ListResults, <<>>) :
          \E o2 \in (IF ids = <<>> THEN {Ok} ELSE CallOutcomes) :
             GetOrderByIncrementID(o1, ids, o2)
    \/ \E o \in CallOutcomes : MOrder_UpdateFromRemote(o)
    \/ \E o \in CallOutcomes : AddComment(o)
    \/ \E o \in CallOutcomes, n \in Ids : UpdateEntity(o, n)
    \/ \E code \in Codes, o \in CallOutcomes : CreateAttribute(code, o)
    \/ \E code \in Codes, o \in CallOutcomes :
          GetAttributeByAttributeCode(code, o)
    \/ \E o \in CallOutcomes : UpdateAttributeFromRemote(o)
    \/ \E o \in CallOutcomes : UpdateAttributeOnRemote(o)
    \/ \E o1 \in CallOutcomes, v \in OptionValues :
          \E b \in After(o1, OptionBodies(v), <<>>) :
             \E o2 \in After(o1, CallOutcomes, Ok) : AddOption(o1, v, b, o2)

    \/ \E c \in Clients, o1 \in CallOutcomes :
          \E b \in After(o1, CartBodies, <<>>) :
             \E o2 \in After(o1, CallOutcomes, Ok) :
                NewGuestCartFromAPIClient(c, o1, b, o2)
    \/ \E o \in CallOutcomes : MCart_UpdateFromRemote(o)
    \/ \E o \in CallOutcomes : \E b \in After(o, OrderBodies, <<>>) :
          CreateOrder(o, b)

SpecAcc == Init /\ [][NextAcc]_vars

\* ------------------------------------------------- the cart and its items
\* The accessors of a cart, with the items the store holds for it; the
\* products the items name are created first.
NextCart ==
    \/ Discard
    \/ \E x \in Skus, o \in CallOutcomes : CreateOrReplaceProduct(x, o)
    \/ \E c \in Clients, o1 \in CallOutcomes :
          \E b \in After(o1, CartBodies, <<>>) :
             \E o2 \in After(o1, CallOutcomes, Ok) :
                NewGuestCartFromAPIClient(c, o1, b, o2)
    \/ \E c \in Clients, o1 \in CallOutcomes :
          \E b \in After(o1, CartBodies, <<>>) :
             \E o2 \in After(o1, CallOutcomes, Ok) :
                NewCustomerCartFromAPIClient(c, o1, b, o2)
    \/ \E o \in CallOutcomes : MCart_UpdateFromRemote(o)
    \/ \E items \in ItemLists : \E outs \in OutcomeLists(Len(items)) :
          AddItems(items, outs)
    \/ \E itemID \in ItemIds, o \in CallOutcomes : MCart_DeleteItem(itemID, o)
    \/ \E o0 \in CallOutcomes :
          \E outs \in After(o0, OutcomeLists(Cardinality(remote.cart)), <<>>) :
             MCart_DeleteAllItems(o0, outs)

SpecCart == Init /\ [][NextCart]_vars

\* ------------------------------------------------ building the API client
\* NewAPIClientFromAuthentication: one POST of the credentials to the route
\* of the authentication type; the token is read from the answer.
AuthRoutes == { <<"customer">>, <<"admin">> }

\* statuses below 400 an authentication endpoint can answer with
AuthStatuses == {200, 399}

\* bodies of the answer: a token, quoted or not, or an error message
TokenBodies == Strings(3) \cup CartBodies

\* the answer of the authentication POST: unlike a store answer it has a
\* body for every status
AuthAnswer(o, st, b) ==
    CASE o.kind = "ok" -> [status |-> st, body |-> b]
      [] o.kind = "resp" -> [status |-> o.status, body |-> b]
      [] OTHER -> NoResp

\* fmt.Errorf("authentication failed with status %d: %s", ...)
AuthenticationFailed(r) ==
    [base |-> "authentication failed", layers |-> <<>>,
     status |-> r.status, body |-> RespString(r.body)]

\* the token left as the body gives it
AuthToken_Quoted(b) == RespString(b)

\* token := mayTrimSurroundingQuotes(resp.String())
AuthToken(b) == mayTrimSurroundingQuotes(RespString(b))

NewAPIClientFromAuthentication(route, o, st, b) ==
    /\ LET r == AuthAnswer(o, st, b)
           call == [NoCall EXCEPT !.op = "NewAPIClientFromAuthentication",
                                  !.served = (o.kind = "ok"),
                                  !.reqs = <<Req("POST", route)>>,
                                  !.status = r.status,
                                  !.body = r.body]
       IN  IF TransportErr(o) # NoErr
           THEN last' = [call EXCEPT
                           !.err = IF o.kind = "ctx"
                                   THEN CtxError("context.Canceled")
                                   ELSE TransportErr(o)]
           ELSE IF IsError(r)
                THEN last' = [call EXCEPT !.err = AuthenticationFailed(r)]
                ELSE last' = [call EXCEPT !.nonNil = TRUE,
                                          !.val = AuthToken(r.body)]
    /\ UNCHANGED <<w, remote, clientVars>>

NextAuth ==
    \E route \in AuthRoutes, o \in CallOutcomes :
       \E st \in After(o, AuthStatuses, 0) :
          \E b \in IF o.kind \in {"ok", "resp"} THEN TokenBodies ELSE {<<>>} :
             NewAPIClientFromAuthentication(route, o, st, b)

SpecAuth == Init /\ [][NextAuth]_vars

\* ---------------------------------------------------------- the bulk tool
\* createBulkProducts and updateBulkStock: one goroutine per entry of the
\* slice, all against one shared Client; sem bounds the calls in flight,
\* errors collects one error per failed entry, wg joins the goroutines.
MaxCount == 2

MaxConcurrent == 2

Tools == {"createBulkProducts", "updateBulkStock"}

\* the SKU createBulkProducts generates for entry i (i counts from 1)
BulkSku(i) == <<"bulk-product-">> \o Itoa(i)

\* the slices the function loops over
Batches(t, n) ==
    IF t = "createBulkProducts" THEN { [i \in 1..n |-> BulkSku(i)] }
    ELSE [1..n -> Skus]

\* what a library call of the tool comes back with; the tool hands the
\* library no context, so no call ends on a cancelled context
BulkOutcomes ==
    { o \in CallOutcomes : o.kind # "ctx" /\ o.status # StatusBadRequest }

\* a goroutine that has not been started
NoWorker == [pc |-> "none", p |-> <<>>, mProduct |-> NoWrapper,
             err |-> NoErr, outs |-> <<>>]

\* the error updateBulkStock makes up when the product carries no stock item
NoStockItem == Sentinel("no stock item ID for SKU")

InitBulk ==
    /\ IdleState /\ PureIdle /\ QueryIdle
    /\ w = NoWrapper /\ last = NoCall
    /\ tool \in Tools
    /\ count \in 0..MaxCount
    /\ concurrent \in -1..MaxConcurrent
    /\ batch \in Batches(tool, count)
    /\ remote = IF tool = "updateBulkStock"
                THEN [EmptyStore EXCEPT !.products = Skus]
                ELSE EmptyStore
    /\ mpc = "make" /\ idx = 0 /\ loopVar = <<>>
    /\ wk = [i \in 1..count |-> NoWorker]
    /\ sem = 0 /\ errors = <<>> /\ wg = 0 /\ summary = NoSummary

bulkInputs == <<tool, count, concurrent, batch>>

\* sem := make(chan struct{}, concurrent); errors := make(chan error, count):
\* make panics on a negative size
MakeChannels ==
    /\ mpc = "make"
    /\ mpc' = IF concurrent < 0 THEN "panic" ELSE "loop"
    /\ UNCHANGED <<clientVars_NoBulk, accVars, bulkInputs, idx, loopVar, wk,
                   sem, errors, wg, summary>>

\* one turn of the range loop: wg.Add(1); go func(idx, p){...}(i, product)
Spawn ==
    /\ mpc = "loop" /\ idx < count
    /\ idx' = idx + 1
    /\ loopVar' = batch[idx + 1]
    /\ wg' = wg + 1
    /\ wk' = [wk EXCEPT ![idx + 1] = [NoWorker EXCEPT !.pc = "sem",
                                                      !.p = batch[idx + 1]]]
    /\ UNCHANGED <<clientVars_NoBulk, accVars, bulkInputs, mpc, sem, errors,
                   summary>>

\* the range loop is over: the function goes on to wg.Wait()
LoopEnd ==
    /\ mpc = "loop" /\ idx = count
    /\ mpc' = "wait"
    /\ UNCHANGED <<clientVars_NoBulk, accVars, bulkInputs, idx, loopVar, wk,
                   sem, errors, wg, summary>>

\* the entry a goroutine works on, read from the range variable the
\* closure would capture
Entry_Captured(i) == loopVar

\* the entry a goroutine works on: its own parameter p / u
Entry(i) == wk[i].p

\* the library calls a goroutine makes while it holds a token
Calls == {"create", "get", "update"}

\* sem <- struct{}{}: goes through when the buffer has room.  On an
\* unbuffered channel a send needs a receiver that is already waiting, and
\* only goroutines past their own send ever receive from sem.
Acquire(i) ==
    /\ wk[i].pc = "sem"
    /\ sem < concurrent
    /\ sem' = sem + 1
    /\ wk' = [wk EXCEPT ![i].pc = IF tool = "createBulkProducts"
                                  THEN "create" ELSE "get"]
    /\ UNCHANGED <<clientVars_NoBulk, accVars, bulkInputs, mpc, idx, loopVar,
                   errors, wg, summary>>

\* the wrapper CreateOrReplaceProduct returns for product x
CreatedProduct(x, o) ==
    LET mp == [NoWrapper EXCEPT !.kind = "MProduct", !.sku = x]
    IN  IF DecodeCall(o, 200, "create new product on remote") # NoErr
        THEN mp
        ELSE [mp EXCEPT !.route = products \o Slash
                                    \o mayTrimSurroundingQuotes(x)]

\* the error CreateOrReplaceProduct returns
CreateError(o) ==
    LET err == DecodeCall(o, 200, "create new product on remote")
    IN  IF err # NoErr
        THEN Wrap(err, "error creating or replacing product")
        ELSE NoErr

\* magento2.CreateOrReplaceProduct(&p, true, client) returns
CreateReturns(i, o) ==
    /\ wk[i].pc = "create"
    /\ wk' = [wk EXCEPT ![i] = [@ EXCEPT
                !.mProduct = CreatedProduct(Entry(i), o),
                !.err = CreateError(o),
                !.outs = Append(@, o),
                !.pc = IF CreateError(o) # NoErr THEN "errors" ELSE "release"]]
    /\ remote' = IF CreateError(o) = NoErr
                 THEN [remote EXCEPT !.products = @ \cup {Entry(i)}]
                 ELSE remote
    /\ UNCHANGED <<clientVars_NoBulk, w, last, bulkInputs, mpc, idx, loopVar,
                   sem, errors, wg, summary>>

\* the wrapper GetProductBySKU returns for SKU x
GotProduct(x, o) ==
    ProductAfterGet([NoWrapper EXCEPT !.kind = "MProduct",
                                      !.route = products \o Slash \o x], o)

\* the error GetProductBySKU returns
GetError(x, o) ==
    LET err == DecodeCall(o, ProductStatus(products \o Slash \o x),
                          "get detailed product from remote")
    IN  IF err # NoErr
        THEN Wrap(err, "error updating product from remote when getting by SKU")
        ELSE NoErr

\* magento2.GetProductBySKU(u.SKU, client) returns; hasStock: the product
\* decoded carries extension_attributes.stock_item.item_id
GetReturns(i, o, hasStock) ==
    /\ wk[i].pc = "get"
    /\ wk' = [wk EXCEPT ![i] = [@ EXCEPT
                !.mProduct = GotProduct(Entry(i), o),
                !.outs = Append(@, o),
                !.err = IF GetError(Entry(i), o) # NoErr
                        THEN GetError(Entry(i), o)
                        ELSE IF hasStock THEN NoErr ELSE NoStockItem,
                !.pc = IF GetError(Entry(i), o) = NoErr /\ hasStock
                       THEN "update" ELSE "errors"]]
    /\ UNCHANGED <<clientVars_NoBulk, accVars, bulkInputs, mpc, idx, loopVar,
                   sem, errors, wg, summary>>

\* the error product.UpdateQuantityForStockItem returns on wrapper mp
StockError(mp, o) ==
    DirectCall(o, ProductStatus(mp.route), "update stock for product",
               "error updating stock for product")

\* product.UpdateQuantityForStockItem(stockItemID, int(u.Qty), true) returns
UpdateReturns(i, o) ==
    /\ wk[i].pc = "update"
    /\ wk' = [wk EXCEPT ![i] = [@ EXCEPT
                !.err = StockError(wk[i].mProduct, o),
                !.outs = Append(@, o),
                !.pc = IF StockError(wk[i].mProduct, o) # NoErr
                       THEN "errors" ELSE "release"]]
    /\ UNCHANGED <<clientVars_NoBulk, accVars, bulkInputs, mpc, idx, loopVar,
                   sem, errors, wg, summary>>

\* errors <- err: goes through when the buffer (of size count) has room
SendError(i) ==
    /\ wk[i].pc = "errors"
    /\ Len(errors) < count
    /\ errors' = Append(errors, wk[i].err)
    /\ wk' = [wk EXCEPT ![i].pc = "release"]
    /\ UNCHANGED <<clientVars_NoBulk, accVars, bulkInputs, mpc, idx, loopVar,
                   sem, wg, summary>>

\* defer func() { <-sem }(): the goroutine takes a token back
Release(i) ==
    /\ wk[i].pc = "release"
    /\ sem > 0
    /\ sem' = sem - 1
    /\ wk' = [wk EXCEPT ![i].pc = "wgdone"]
    /\ UNCHANGED <<clientVars_NoBulk, accVars, bulkInputs, mpc, idx, loopVar,
                   errors, wg, summary>>

\* defer wg.Done(): the goroutine ends
Done(i) ==
    /\ wk[i].pc = "wgdone"
    /\ wg' = wg - 1
    /\ wk' = [wk EXCEPT ![i].pc = "exit"]
    /\ UNCHANGED <<clientVars_NoBulk, accVars, bulkInputs, mpc, idx, loopVar,
                   sem, errors, summary>>

\* counting the errors without wg.Wait()
Summarize_Early ==
    /\ mpc = "wait"
    /\ mpc' = "returned"
    /\ LET errorCount == Len(errors)
       IN  summary' = [done |-> TRUE, created |-> count - errorCount,
                       failed |-> errorCount]
    /\ UNCHANGED <<clientVars_NoBulk, accVars, bulkInputs, idx, loopVar, wk,
                   sem, errors, wg>>

\* wg.Wait() returns; close(errors); the errors are counted and the
\* summary is logged
Summarize ==
    /\ mpc = "wait"
    /\ wg = 0
    /\ mpc' = "returned"
    /\ LET errorCount == Len(errors)
       IN  summary' = [done |-> TRUE, created |-> count - errorCount,
                       failed |-> errorCount]
    /\ UNCHANGED <<clientVars_NoBulk, accVars, bulkInputs, idx, loopVar, wk,
                   sem, errors, wg>>

WorkerStep(i) ==
    \/ Acquire(i)
    \/ \E o \in BulkOutcomes : CreateReturns(i, o)
    \/ \E o \in BulkOutcomes : \E hasStock \in After(o, BOOLEAN, FALSE) :
          GetReturns(i, o, hasStock)
    \/ \E o \in BulkOutcomes : UpdateReturns(i, o)
    \/ SendError(i)
    \/ Release(i)
    \/ Done(i)

MainStep == MakeChannels \/ Spawn \/ LoopEnd \/ Summarize

NextBulk ==
    \/ MakeChannels
    \/ Spawn
    \/ LoopEnd
    \/ \E i \in DOMAIN wk : Acquire(i)
    \/ \E i \in DOMAIN wk : \E o \in BulkOutcomes : CreateReturns(i, o)
    \/ \E i \in DOMAIN wk : \E o \in BulkOutcomes :
          \E hasStock \in After(o, BOOLEAN, FALSE) : GetReturns(i, o, hasStock)
    \/ \E i \in DOMAIN wk : \E o \in BulkOutcomes : UpdateReturns(i, o)
    \/ \E i \in DOMAIN wk : SendError(i)
    \/ \E i \in DOMAIN wk : Release(i)
    \/ \E i \in DOMAIN wk : Done(i)
    \/ Summarize

SpecBulk == InitBulk /\ [][NextBulk]_vars

\* the Go scheduler runs every goroutine that can take a step, and every
\* library call returns
LiveBulk ==
    /\ SpecBulk
    /\ WF_vars(MainStep)
    /\ \A i \in 1..MaxCount : WF_vars(i \in DOMAIN wk /\ WorkerStep(i))



\* ------------------------------------------------ the search query builder
\* A query string is the sequence of its key=value pairs; a key is the
\* sequence of its pieces, the indices written out in decimal.
MaxFilters == 2

\* Filter{FilterGroups, Filters, FilterFor}
Filter(g, f, for) == [FilterGroups |-> g, Filters |-> f, FilterFor |-> for]

\* a FilterFields literal as the callers write it: Field, Value and
\* ConditionType under one position
FilterAt(g, f, t) ==
    [Field |-> Filter(g, f, t[1]), Value |-> Filter(g, f, t[2]),
     ConditionType |-> Filter(g, f, t[3])]

IncrementIds == { "100000123", "100000124" }

\* the filters callers supply
Triples ==
    { <<"increment_id", id, "eq">> : id \in IncrementIds }
      \cup { <<"name", "n", "in">> }

Positions == { <<0, 0>>, <<2, 0>>, <<2, 1>> }

FilterFieldsSet == { FilterAt(pos[1], pos[2], t) : pos \in Positions, t \in Triples }

\* Fields{Key: "fields", Value: "items[entity_id]"}
EntityIdFields == [Key |-> "fields", Value |-> "items[entity_id]"]

\* the criteria GetOrderByIncrementID builds for increment id id
OrderSearchCriteria(id) ==
    << [Fields |-> << [Field |-> Filter(2, 0, "increment_id"),
                       Value |-> Filter(2, 0, id),
                       ConditionType |-> Filter(2, 0, "eq")] >>] >>

\* []SearchQueryCriteria with at most n filters, in one or two criteria
CriteriaLists(n) ==
    UNION { { << [Fields |-> SubSeq(q, 1, cut)],
                 [Fields |-> SubSeq(q, cut + 1, Len(q))] >> : cut \in 0..Len(q) }
            : q \in UNION { [1..k -> FilterFieldsSet] : k \in 0..n } }

\* searchCriteria[filter_groups][g][filters][f][part]
FilterKey(g, f, part) ==
    <<"searchCriteria[filter_groups][">> \o Itoa(g) \o <<"][filters][">>
        \o Itoa(f) \o <<"][", part, "]">>

Pair(k, v) == [key |-> k, value |-> v]

\* the three pairs one FilterFields is serialised to
FilterPairs(ff) ==
    << Pair(FilterKey(ff.Field.FilterGroups, ff.Field.Filters, "field"),
            ff.Field.FilterFor),
       Pair(FilterKey(ff.Value.FilterGroups, ff.Value.Filters, "value"),
            ff.Value.FilterFor),
       Pair(FilterKey(ff.ConditionType.FilterGroups, ff.ConditionType.Filters,
                      "condition_type"),
            ff.ConditionType.FilterFor) >>

\* all FilterFields of the criteria, in order
RECURSIVE AllFields(_)
AllFields(cs) ==
    IF cs = <<>> THEN <<>> ELSE cs[1].Fields \o AllFields(Tail(cs))

RECURSIVE PairsOf(_)
PairsOf(ffs) ==
    IF ffs = <<>> THEN <<>> ELSE FilterPairs(ffs[1]) \o PairsOf(Tail(ffs))

\* a builder numbering the filters itself: group and filter by the place in
\* the list
BuildFlexibleSearchQuery_Numbered(cs, add) ==
    LET ffs == AllFields(cs)
        renum(k) == FilterAt(k - 1, 0, <<ffs[k].Field.FilterFor,
                                         ffs[k].Value.FilterFor,
                                         ffs[k].ConditionType.FilterFor>>)
    IN  PairsOf([k \in 1..Len(ffs) |-> renum(k)])
          \o [k \in 1..Len(add) |-> Pair(<<add[k].Key>>, add[k].Value)]

\* BuildFlexibleSearchQuery(criterias, additional...)
BuildFlexibleSearchQuery(cs, add) ==
    PairsOf(AllFields(cs))
      \o [k \in 1..Len(add) |-> Pair(<<add[k].Key>>, add[k].Value)]

InitQuery ==
    /\ IdleState /\ AccIdle /\ BulkIdle
    /\ fn = "BuildFlexibleSearchQuery" /\ fdone = FALSE
    /\ tin = <<>> /\ trimmed = <<>> /\ nresp = NoResp /\ nerr = NoErr
    /\ \/ /\ criteria \in CriteriaLists(MaxFilters)
          /\ additional \in {<<>>, <<EntityIdFields>>}
       \/ /\ criteria \in { OrderSearchCriteria(id) : id \in IncrementIds }
          /\ additional = <<EntityIdFields>>
    /\ query = <<>>

ApplyBuild ==
    /\ fn = "BuildFlexibleSearchQuery" /\ ~fdone
    /\ query' = BuildFlexibleSearchQuery(criteria, additional)
    /\ fdone' = TRUE
    /\ UNCHANGED <<op, phase, target, pc, ctxErr, ctxAtStart, callVars,
                   listLen, ret, lateSend, fn, tin, trimmed, nresp, nerr,
                   accVars, bulkVars, criteria, additional>>

NextQuery == ApplyBuild

SpecQuery == InitQuery /\ [][NextQuery]_vars

\* ------------------------------------------------- claims on the bulk tool
\* the goroutines with a library call in flight
InFlight == { i \in DOMAIN wk : wk[i].pc \in Calls }

\* the goroutines whose library calls have all returned
Finished == { i \in DOMAIN wk : wk[i].pc \in {"errors", "release", "wgdone", "exit"} }

\* what goroutine i ends with, from its own entry and its own calls alone
OwnWrapper(i) ==
    IF tool = "createBulkProducts" THEN CreatedProduct(batch[i], wk[i].outs[1])
    ELSE GotProduct(batch[i], wk[i].outs[1])

OwnError(i) ==
    IF tool = "createBulkProducts" THEN CreateError(wk[i].outs[1])
    ELSE IF GetError(batch[i], wk[i].outs[1]) # NoErr
         THEN GetError(batch[i], wk[i].outs[1])
         ELSE IF Len(wk[i].outs) = 1 THEN NoStockItem
              ELSE StockError(OwnWrapper(i), wk[i].outs[2])

\* C21: with a concurrency limit c >= 1, at most c library calls of the bulk
\* tool are in flight at any moment, and the wrapper and error each worker
\* ends with are those its own entry and its own calls produce.
C21_BoundedIndependent ==
    (tool # "none" /\ concurrent >= 1) =>
        /\ Cardinality(InFlight) <= concurrent
        /\ \A i \in Finished :
              /\ wk[i].mProduct = OwnWrapper(i)
              /\ wk[i].err = OwnError(i)

\* one worker has finished with an error while another's call is in flight
\* and a third party waits for the only token
C21_Witness ==
    /\ concurrent = 1 /\ count = 2
    /\ \E i \in Finished : wk[i].err # NoErr
    /\ \E i \in InFlight : \E j \in DOMAIN wk : j # i /\ wk[j].pc = "exit"

\* C22: when the bulk tool logs its summary every entry has been attempted,
\* created + failed = count, and failed is the number of entries whose
\* operation ended with an error.
C22_Summary ==
    summary.done =>
        /\ \A i \in 1..count : Len(wk[i].outs) >= 1
        /\ summary.created + summary.failed = count
        /\ summary.failed = Cardinality({ i \in 1..count : wk[i].err # NoErr })

\* a summary over two entries of which the first failed and the second,
\* attempted all the same, succeeded
C22_Witness ==
    /\ summary.done /\ count = 2
    /\ wk[1].err # NoErr /\ wk[2].err = NoErr
    /\ summary.failed = 1 /\ summary.created = 1

\* C28: for every count >= 0 and every concurrency limit >= 0 the bulk tool
\* goes on until it returns: as long as it has not returned some goroutine
\* can take a step, and a worker with an error to send finds room in the
\* errors channel.
C28_NoDeadlock ==
    (tool # "none" /\ concurrent >= 0) =>
        /\ mpc = "returned" \/ ENABLED NextBulk
        /\ \A i \in DOMAIN wk : wk[i].pc = "errors" => Len(errors) < count


\* ------------------------------------------- claims on the normaliser
\* C24: the last branch of mayReturnErrorForHTTPResponse is never taken: for
\* every response with IsError() the result is ErrNotFound itself or an
\* error wrapping ErrBadRequest, never the generic "http status error".
C24_FallbackUnreachable ==
    (fn = "normalize" /\ fdone /\ IsError(nresp)) =>
        /\ nerr = ErrNotFound \/ ErrorsIs(nerr, ErrBadRequest)
        /\ nerr.base # "http status error"

\* an error response that is neither 404 nor 400 has been normalised
C24_Witness ==
    /\ fn = "normalize" /\ fdone
    /\ nresp.status = StatusInternalServerError
    /\ ErrorsIs(nerr, ErrBadRequest)

\* ------------------------------------------ claims on the query builder
\* the group and filter index a key carries, as written in the key
KeyIndices(k) == <<k[2], k[4]>>

KeyPart(k) == k[6]

RouteOps == {"AddComment", "MOrder.UpdateFromRemote",
             "UpdateQuantityForStockItem", "UpdateCategoryProductsFromRemote"}

\* Route empty and no remote identifier in the entity
Uninitialized(x) == x.route = <<>> /\ x.id = 0 /\ x.sku = <<>>

\* C11: an operation that needs Route, called on an Uninitialized wrapper,
\* returns an error and has issued no HTTP request.
C11_FailFast ==
    (last.op \in RouteOps /\ Uninitialized(w))
    => (last.err # NoErr /\ last.reqs = <<>>)

\* C12: while the caller holds a wrapper, once its Route is non-empty no
\* accessor operation changes Route.
C12_RouteStable ==
    [][(w.kind # "none" /\ w.route # <<>> /\ w'.kind = w.kind)
          => w'.route = w.route]_vars

\* an order wrapper whose entity id was replaced by UpdateEntity while its
\* Route stayed
C12_Witness ==
    /\ w.kind = "MOrder" /\ last.op = "UpdateEntity" /\ last.err = NoErr
    /\ w.route = Orders \o Slash \o Itoa(1)
    /\ w.id = 2

\* lifecycle stage of a wrapper: 0 Uninitialized, 1 RouteKnown, 2 Hydrated
Stage(x) == IF x.route = <<>> THEN 0 ELSE IF x.hydrated THEN 2 ELSE 1

CreateOps == {"CreateOrReplaceProduct", "CreateCategory", "CreateAttribute"}

\* lookups and constructors that derive Route from a key or from an
\* identifier in the response
ResolvingOps == {"GetProductBySKU", "GetAttributeByAttributeCode",
                 "GetCategoryByName", "GetOrderByIncrementID",
                 "NewGuestCartFromAPIClient"}

C14_RoundTrip ==
    (last.op = "GetProductBySKU" /\ last.served /\ last.arg \in remote.products)
    => /\ last.err = NoErr
       /\ w.kind = "MProduct"
       /\ w.sku = last.arg
       /\ w.route = products \o Slash \o last.arg

NaturalKeyOps == {"GetCategoryByName", "GetOrderByIncrementID"}

\* the base route of the entity a get-by-natural-key call looks up
BaseRoute(o) == IF o = "GetCategoryByName" THEN categories ELSE Orders

\* C15: GetCategoryByName and GetOrderByIncrementID start with the list
\* GET.  When it decoded zero results they return (nil, ErrNotFound) after
\* that one request.  When it decoded at least one, Route is derived from
\* the id of the first result and the next request is a GET on that Route;
\* in no other case is a second request issued.
C15_ListThenDetail ==
    last.op \in NaturalKeyOps =>
      /\ last.reqs[1] = Req("GET", SearchRoute(IF last.op = "GetCategoryByName"
                                               THEN categoriesList ELSE Orders))
      /\ last.listed = 0 =>
            /\ IsIdentical(last.err, ErrNotFound) /\ ~last.nonNil
            /\ w.kind = "none"
            /\ Len(last.reqs) = 1
      /\ last.listed > 0 =>
            /\ last.nonNil
            /\ w.route = BaseRoute(last.op) \o Slash \o Itoa(last.arg[1])
            /\ Len(last.reqs) >= 2
            /\ last.reqs[2] = Req("GET", w.route)
      /\ Len(last.reqs) >= 2 => last.listed > 0

\* the list returned two orders; the wrapper follows the first
C15_Witness ==
    /\ last.op = "GetOrderByIncrementID" /\ last.err = NoErr
    /\ last.arg = <<2, 1>>
    /\ w.route = Orders \o Slash \o <<"2">>
    /\ last.reqs = <<Req("GET", SearchRoute(Orders)), Req("GET", w.route)>>

\* q is body b without surrounding white space and without the pair of
\* double quotes around it, if it has one
IsUnquotedOf(q, b) ==
    LET t == TrimSpace(b)
        quoted == Len(t) >= 2 /\ t[1] = Quote /\ t[Len(t)] = Quote
    IN  IF quoted THEN t = <<Quote>> \o q \o <<Quote>> ELSE t = q

GuestCartReturned ==
    last.op = "NewGuestCartFromAPIClient" /\ last.err = NoErr

LastItem == last.arg[Len(last.reqs)]

\* C17: when the add-item POST of an item is answered with 404, AddItems
\* returns an ItemNotFoundError carrying that item's ItemID; it never
\* returns the ErrNotFound sentinel itself; and when the store serves every
\* POST and holds every item's SKU it returns no error, all items posted.
C17_ItemNotFound ==
    last.op = "AddItems" =>
      /\ last.status = StatusNotFound =>
            last.err = ItemNotFoundError(LastItem.itemID)
      /\ ~IsIdentical(last.err, ErrNotFound)
      /\ (last.served /\ \A i \in 1..Len(last.arg) :
                            last.arg[i].sku \in remote.products) =>
            (last.err = NoErr /\ Len(last.reqs) = Len(last.arg))

\* the first item was added, the second one's SKU is not in the store
C17_Witness ==
    /\ last.op = "AddItems" /\ last.served
    /\ Len(last.arg) = 2 /\ Len(last.reqs) = 2
    /\ last.arg[1].sku \in remote.products
    /\ last.arg[2].sku \notin remote.products
    /\ last.status = StatusNotFound
    /\ last.err = ItemNotFoundError(last.arg[2].itemID)

AddOptionSucceeded == last.op = "AddOption" /\ last.err = NoErr

\* C18: when AddOption returns without error, the string it returns is the
\* option value the store assigned (the response body without its quotes
\* and without the "id_" prefix), the POST was followed by a GET on the
\* attribute's Route, and the wrapper's Options are the store's, the new
\* option included.
C18_AddOption ==
    AddOptionSucceeded =>
      /\ last.val = last.arg
      /\ last.body \in OptionBodies(last.val)
      /\ last.reqs = <<Req("POST", w.route \o Slash \o productsAttributeOptions),
                       Req("GET", w.route)>>
      /\ last.val \in w.options
      /\ w.options = remote.options

\* a second option added; the body carried quotes and the prefix
C18_Witness ==
    /\ AddOptionSucceeded
    /\ last.body = <<Quote, "i", "d", "_", "8", Quote>>
    /\ last.val = <<"8">>
    /\ w.options = { <<"7">>, <<"8">> }

\* what follows "/orders/" in the Route of the order CreateOrder returned
MadeID == SubSeq(last.made.route, 3, Len(last.made.route))

IsDecimal(q) == q # <<>> /\ \A i \in 1..Len(q) : q[i] \in Range(Digits)

\* C19: CreateOrder returns a non-nil MOrder exactly when it returns a nil
\* error.  When the PUT was answered 2xx with a body that unquotes to a
\* decimal number, it returns an MOrder whose Route is "/orders/" + that
\* number as written, whose EntityID is its value, and whose APIClient is
\* the cart's.
C19_CreateOrder ==
    last.op = "CreateOrder" =>
      /\ last.nonNil <=> last.err = NoErr
      /\ last.nonNil <=> last.made.kind = "MOrder"
      /\ last.nonNil =>
            /\ last.status = 200
            /\ last.made.route = Orders \o Slash \o MadeID
            /\ IsUnquotedOf(MadeID, last.body)
            /\ IsDecimal(MadeID)
            /\ last.made.id = DecimalValue(MadeID)
            /\ last.made.client = w.client
      /\ (last.status = 200
            /\ \E i, j \in 1..Len(last.body) :
                  /\ IsUnquotedOf(SubSeq(last.body, i, j), last.body)
                  /\ IsDecimal(SubSeq(last.body, i, j)))
         => last.nonNil

\* the store answered the PUT with 12; the order came back on client c2
C19_Witness ==
    /\ last.op = "CreateOrder" /\ last.err = NoErr
    /\ last.body = <<"1", "2">>
    /\ last.made.id = 12
    /\ last.made.route = <<"/orders", "/", "1", "2">>
    /\ last.made.client = "c2" /\ w.client = "c2"

\* the request whose response the accessor returned on
LastReq == last.reqs[Len(last.reqs)]

\* C20: an accessor's error for a response with a 4xx/5xx status other than
\* 404 satisfies errors.Is(err, ErrBadRequest), and its error for a 404
\* answer to a GET satisfies errors.Is(err, ErrNotFound), whatever the
\* accessor wrapped around it.
C20_Unwraps ==
    (last.op # "none" /\ last.reqs # <<>>) =>
      /\ (last.status >= StatusBadRequest /\ last.status # StatusNotFound) =>
            (last.err # NoErr /\ ErrorsIs(last.err, ErrBadRequest))
      /\ (last.status = StatusNotFound /\ LastReq.m = "GET") =>
            (last.err # NoErr /\ ErrorsIs(last.err, ErrNotFound))

\* the products GET of GetCategoryByName answered 500: two accessor layers
\* around the wrapped ErrBadRequest
C20_Witness ==
    /\ last.op = "GetCategoryByName"
    /\ Len(last.reqs) = 3
    /\ last.status = StatusInternalServerError
    /\ Len(last.err.layers) = 3
    /\ ErrorsIs(last.err, ErrBadRequest)

\* ------------------------------------- claims on the wrappers, continued
UpdateFromRemoteOps ==
    {"UpdateProductFromRemote", "UpdateCategoryFromRemote",
     "UpdateAttributeFromRemote"}

\* C25: an update-from-remote call (product, category, attribute) that
\* returns an error leaves the wrapper, Route and entity data, as it was
\* before the call.
C25_UnchangedOnError ==
    [][(last'.op \in UpdateFromRemoteOps /\ last'.err # NoErr) => w' = w]_vars

\* C26: AddItems posts the items one at a time in slice order to
\* Route + "/items", each with QuoteID set to the cart's QuoteID, and stops
\* at the first item whose POST fails: the items before it are in the store's
\* cart, the items after it are not sent, and the caller's slice and the
\* wrapper (cart.Cart.Items included) are as before the call.
C26_AddItems ==
    [][last'.op = "AddItems" =>
         LET k == Len(last'.reqs)
             items == last'.arg
         IN  /\ w' = w
             /\ last'.argAfter = items
             /\ k >= 1 /\ k <= Len(items)
             /\ Len(last'.sent) = k /\ Len(last'.statuses) = k
             /\ \A i \in 1..k :
                   /\ last'.reqs[i] = Req("POST", w.route \o cartItems)
                   /\ last'.sent[i] = [items[i] EXCEPT !.quoteID = w.quoteID]
             /\ \A i \in 1..(k - 1) : last'.statuses[i] = 200
             /\ (last'.err = NoErr) <=> (k = Len(items) /\ last'.statuses[k] = 200)
             /\ remote'.cart = remote.cart \cup
                  { items[i].itemID : i \in { j \in 1..k : last'.statuses[j] = 200 } }
             /\ remote'.products = remote.products]_vars

\* of two items the first, posted under the cart's QuoteID instead of its
\* own, is in the store's cart and the second was refused
C26_Witness ==
    /\ last.op = "AddItems" /\ Len(last.arg) = 2 /\ Len(last.reqs) = 2
    /\ last.err # NoErr
    /\ last.statuses[1] = 200
    /\ last.arg[1].quoteID # w.quoteID
    /\ last.sent[1].quoteID = w.quoteID
    /\ remote.cart = {last.arg[1].itemID}
    /\ w.items = <<>>

CartCreationOps == {"NewGuestCartFromAPIClient", "NewCustomerCartFromAPIClient"}

\* C29: NewGuestCartFromAPIClient and NewCustomerCartFromAPIClient return a
\* cart exactly when they return no error; a failed hydration GET after a
\* successful POST yields nil and an error; on success the cart was hydrated
\* by exactly one GET on its Route, issued after the POST.
C29_CartOrError ==
    last.op \in CartCreationOps =>
        /\ last.nonNil <=> last.err = NoErr
        /\ last.err # NoErr => w.kind = "none"
        /\ last.err = NoErr =>
              /\ w.kind = "MCart" /\ w.hydrated
              /\ last.reqs = <<Req("POST", IF last.op = "NewGuestCartFromAPIClient"
                                           THEN guestCart ELSE customerCart),
                               Req("GET", w.route)>>

\* the POST of a customer cart went through, the hydration GET did not: the
\* caller holds no cart
C29_Witness ==
    /\ last.op = "NewCustomerCartFromAPIClient"
    /\ Len(last.reqs) = 2 /\ last.reqs[2] = Req("GET", customerCart)
    /\ last.err # NoErr /\ ~last.nonNil
    /\ w.kind = "none"

\* C30: DeleteAllItems re-fetches the cart, then issues one DELETE per item
\* of the refreshed list, in list order, and stops at the first DELETE that
\* fails; when the re-fetch fails it issues no DELETE; when it returns nil
\* every item of the refreshed list is gone from the store's cart.
C30_DeleteAllItems ==
    [][last'.op = "MCart.DeleteAllItems" =>
         LET n == Len(last'.reqs) - 1
             ids == w'.items
         IN  /\ last'.reqs[1] = Req("GET", w.route)
             /\ last'.listed = -1 =>
                   /\ n = 0 /\ last'.err # NoErr
                   /\ remote' = remote /\ w' = w
             /\ last'.listed # -1 =>
                   /\ ids = ListOf(remote.cart)
                   /\ n <= Len(ids) /\ Len(last'.statuses) = n
                   /\ \A i \in 1..n :
                         last'.reqs[i + 1] = Req("DELETE", DeleteRoute(w, ids[i]))
                   /\ \A i \in 1..(n - 1) : last'.statuses[i] = 200
                   /\ (last'.err = NoErr) <=>
                         (n = Len(ids) /\ (n = 0 \/ last'.statuses[n] = 200))
                   /\ remote'.cart = remote.cart \
                        { ids[i] : i \in { j \in 1..n : last'.statuses[j] = 200 } }
                   /\ last'.err = NoErr => remote'.cart = {}]_vars

\* of two items the first was deleted and the DELETE of the second failed
C30_Witness ==
    /\ last.op = "MCart.DeleteAllItems"
    /\ w.items = <<1, 2>>
    /\ Len(last.reqs) = 3
    /\ last.reqs[2] = Req("DELETE", DeleteRoute(w, 1))
    /\ last.reqs[3] = Req("DELETE", DeleteRoute(w, 2))
    /\ last.err # NoErr
    /\ remote.cart = {2}

\* ------------------------------------------- claims on building the client
AuthReturned == last.op = "NewAPIClientFromAuthentication"

\* C27: NewAPIClientFromAuthentication returns a Client exactly when the
\* authentication POST completed with a status below 400, and then with no
\* error and with the unquoted response body as bearer token; for an error
\* status, a transport failure or a cancelled context it returns nil and an
\* error, so no Client carries the body of an error response as its token.
C27_ClientOrError ==
    AuthReturned =>
        /\ last.nonNil <=> (last.status # 0 /\ last.status < StatusBadRequest)
        /\ last.nonNil <=> last.err = NoErr
        /\ last.nonNil => IsUnquotedOf(last.val, last.body)
        /\ ~last.nonNil => last.val = <<>>
        /\ Len(last.reqs) = 1 /\ last.reqs[1].m = "POST"

\* a quoted token was returned with status 200
C27_Witness ==
    /\ AuthReturned
    /\ last.status = 200 /\ last.body = <<Quote, "a", Quote>>
    /\ last.nonNil /\ last.val = <<"a">>

====
